---- MODULE Spec2Model ----
(***************************************************************************)
(* A model of DAGHandler (src/handlers/dag_handler.py): one request's      *)
(* graph (dag_element.nodes, dag_element.edges), the handler's             *)
(* validation_errors, and the outcome of the last call made on the graph.  *)
(*                                                                         *)
(* Python values are represented as follows.                               *)
(*   - None is the string None ("None"); no id, label or status drawn by   *)
(*     the model is that string.  An Optional[Dict] position is <<>> when  *)
(*     it is None.                                                         *)
(*   - A DAGNode object is its record; a reference to the k-th object of   *)
(*     dag_element.nodes is the index k (two nodes with equal ids are      *)
(*     different objects).                                                 *)
(*   - A dict is a function over its keys, with its keys' insertion order  *)
(*     given separately where the code iterates over it.                   *)
(*   - A float quotient p / q is the pair [num |-> p, den |-> q].          *)
(*   - A raised KeyError is raised = TRUE in the call's outcome.           *)
(*                                                                         *)
(* Beside it: the Kahn loops of _check_acyclic and get_topological_order   *)
(* run one iteration at a time (kahn), the /validate endpoint of           *)
(* src/main.py on a configuration (config), and FileManager                *)
(* (src/handlers/file_manager.py): the files of its two directories        *)
(* (base_dir, temp_dir), its cleanup_tasks, the time in hours (now) and    *)
(* the platform's line separator (linesep).                                *)
(***************************************************************************)
EXTENDS Naturals, Integers, Sequences, FiniteSets, TLC

VARIABLES nodes, edges, validation_errors, result,
          kahn, config, base_dir, temp_dir, cleanup_tasks, now, linesep

vars == <<nodes, edges, validation_errors, result,
          kahn, config, base_dir, temp_dir, cleanup_tasks, now, linesep>>

\* What a call on the graph of a request leaves alone: the position in a
\* Kahn loop run step by step, the configuration sent to /validate, and the
\* FileManager with its directories, its clock and its platform.
other_state == <<kahn, config, base_dir, temp_dir, cleanup_tasks, now, linesep>>

\* ------------------------------------------------------------------ bounds

\* Longest node list drawn.
MaxNodes == 3

\* Longest edge list drawn for the structural operations.
MaxEdges == 3

\* Longest edge list drawn for generate_execution_order (edges with labels).
MaxLabelledEdges == 2

\* ------------------------------------------------------------ Python values

None == "None"

\* Python truthiness of an Optional[str]: None and "" are falsy.
Truthy(v) ==
    v # None /\ v # ""

\* ------------------------------------------------------------- input domain

\* The ids nodes and edges are drawn from.  An edge endpoint that is not the
\* id of a node of the list is an unknown node.
IdNames == <<"a", "b", "c">>

Ids == {IdNames[i] : i \in 1..Len(IdNames)}

IdIndex(id) ==
    CHOOSE i \in 1..Len(IdNames) : IdNames[i] = id

MaxOf(S) ==
    IF S = {} THEN 0 ELSE CHOOSE m \in S : \A x \in S : x <= m

\* The code only tests ids for equality, so node lists are drawn up to a
\* renaming of ids: each id is at most one past the ids used before it.
FirstUse(s) ==
    \A i \in 1..Len(s) :
        IdIndex(s[i]) <= 1 + MaxOf({IdIndex(s[j]) : j \in 1..(i - 1)})

IdLists ==
    {s \in UNION {[1..k -> Ids] : k \in 0..MaxNodes} : FirstUse(s)}

\* DAGNode built from {id, name}: the other fields take their defaults.
NodeName(id) ==
    CASE id = "a" -> "A" [] id = "b" -> "B" [] OTHER -> "C"

DAGNode(id) ==
    [id |-> id, name |-> NodeName(id), description |-> None,
     status |-> "pending", timestamp |-> None, result |-> None,
     position |-> <<>>]

NodeLists ==
    {[i \in 1..Len(s) |-> DAGNode(s[i])] : s \in IdLists}

DAGEdge(f, t, l) ==
    [from_node |-> f, to_node |-> t, label |-> l]

PlainEdges == {DAGEdge(f, t, None) : f \in Ids, t \in Ids}

SeqsUpTo(S, n) ==
    UNION {[1..k -> S] : k \in 0..n}

\* The code never compares two labels, so the edges that carry a label carry
\* the label of their position: the k-th edge has no label (None), the empty
\* label, or EdgeLabels[k].
EdgeLabels == <<"x", "y", "z", "w", "v">>

LabelChoices == {None, "", "*"}

\* The edge list drawn with a choice of label per edge, each "*" replaced by
\* the label of its position.
Labelled(es) ==
    [k \in 1..Len(es) |->
        IF es[k].label = "*" THEN [es[k] EXCEPT !.label = EdgeLabels[k]]
        ELSE es[k]]

LabelledEdgeLists ==
    SeqsUpTo({DAGEdge(f, t, l) : f \in Ids, t \in Ids, l \in LabelChoices},
             MaxLabelledEdges)

\* ------------------------------------------------------ graph construction

\* node_ids = [node.id for node in dag_element.nodes]
node_ids(ns) ==
    [i \in 1..Len(ns) |-> ns[i].id]

IdSet(ns) ==
    {ns[i].id : i \in 1..Len(ns)}

\* The keys of a dict filled by "for node in nodes: d[node.id] = ...", in
\* insertion order: the ids in order of first appearance.
RECURSIVE KeyOrder(_)
KeyOrder(ns) ==
    IF ns = <<>> THEN <<>>
    ELSE LET front == KeyOrder(SubSeq(ns, 1, Len(ns) - 1))
             id == ns[Len(ns)].id
         IN  IF \E k \in 1..Len(front) : front[k] = id
             THEN front ELSE Append(front, id)

\* adjacency[edge.from_node].append(...) or in_degree[edge.to_node] += 1
\* raises KeyError on an edge one of whose ends is no key.
RaisesKeyError(ns, es) ==
    \E i \in 1..Len(es) :
        es[i].from_node \notin IdSet(ns) \/ es[i].to_node \notin IdSet(ns)

\* in_degree after "for edge in edges: in_degree[edge.to_node] += 1".
in_degree(ns, es) ==
    [id \in IdSet(ns) |->
        Cardinality({i \in 1..Len(es) : es[i].to_node = id})]

\* out_degree after "for edge in edges: out_degree[edge.from_node] += 1".
out_degree(ns, es) ==
    [id \in IdSet(ns) |->
        Cardinality({i \in 1..Len(es) : es[i].from_node = id})]

\* adjacency after "for edge in edges: adjacency[edge.from_node].append(edge.to_node)".
adjacency(ns, es) ==
    [id \in IdSet(ns) |->
        LET out == SelectSeq(es, LAMBDA e : e.from_node = id)
        IN  [k \in 1..Len(out) |-> out[k].to_node]]

\* next((n for n in dag_element.nodes if n.id == neighbor_id), None)
FirstNodeWithId(ns, id) ==
    CHOOSE i \in 1..Len(ns) :
        ns[i].id = id /\ \A j \in 1..(i - 1) : ns[j].id # id

\* ------------------------------------------------------ get_topological_order

\* TopoRelease with queue.appendleft in place of queue.append.
RECURSIVE TopoReleaseFront(_, _, _, _)
TopoReleaseFront(ns, neighbors, indeg, queue) ==
    IF neighbors = <<>> THEN [in_degree |-> indeg, queue |-> queue]
    ELSE LET neighbor_id == Head(neighbors)
             dec == [indeg EXCEPT ![neighbor_id] = @ - 1]
         IN  TopoReleaseFront(ns, Tail(neighbors), dec,
                 IF dec[neighbor_id] = 0
                 THEN <<FirstNodeWithId(ns, neighbor_id)>> \o queue
                 ELSE queue)

\* for neighbor_id in adjacency[current.id]: decrement, enqueue at zero.
RECURSIVE TopoRelease(_, _, _, _)
TopoRelease(ns, neighbors, indeg, queue) ==
    IF neighbors = <<>> THEN [in_degree |-> indeg, queue |-> queue]
    ELSE LET neighbor_id == Head(neighbors)
             dec == [indeg EXCEPT ![neighbor_id] = @ - 1]
         IN  TopoRelease(ns, Tail(neighbors), dec,
                 IF dec[neighbor_id] = 0
                 THEN Append(queue, FirstNodeWithId(ns, neighbor_id))
                 ELSE queue)

\* while queue: current = queue.popleft(); topo_order.append(current); ...
RECURSIVE TopoLoop(_, _, _, _, _)
TopoLoop(ns, adj, indeg, queue, topo_order) ==
    IF queue = <<>> THEN topo_order
    ELSE LET current == Head(queue)
             r == TopoRelease(ns, adj[ns[current].id], indeg, Tail(queue))
         IN  TopoLoop(ns, adj, r.in_degree, r.queue,
                      Append(topo_order, current))

\* TopoSources without the test of the in-degree: every node starts queued.
TopoSourcesAll(ns, indeg) ==
    [i \in 1..Len(ns) |-> i]

\* queue = deque([node for node in dag_element.nodes if in_degree[node.id] == 0])
TopoSources(ns, indeg) ==
    SelectSeq([i \in 1..Len(ns) |-> i], LAMBDA i : indeg[ns[i].id] = 0)

\* The list returned, as references (indices) into dag_element.nodes.
\* Defined when the construction of the tables does not raise.
get_topological_order(ns, es) ==
    LET indeg == in_degree(ns, es)
    IN  TopoLoop(ns, adjacency(ns, es), indeg, TopoSources(ns, indeg), <<>>)

\* ------------------------------------------------------------ _check_acyclic

\* AcyclicRelease without the test of the in-degree: every neighbor is
\* enqueued.
RECURSIVE AcyclicReleaseEvery(_, _, _)
AcyclicReleaseEvery(neighbors, indeg, queue) ==
    IF neighbors = <<>> THEN [in_degree |-> indeg, queue |-> queue]
    ELSE LET neighbor == Head(neighbors)
             dec == [indeg EXCEPT ![neighbor] = @ - 1]
         IN  AcyclicReleaseEvery(Tail(neighbors), dec, Append(queue, neighbor))

\* for neighbor in adjacency[current]: decrement, enqueue the id at zero.
RECURSIVE AcyclicRelease(_, _, _)
AcyclicRelease(neighbors, indeg, queue) ==
    IF neighbors = <<>> THEN [in_degree |-> indeg, queue |-> queue]
    ELSE LET neighbor == Head(neighbors)
             dec == [indeg EXCEPT ![neighbor] = @ - 1]
         IN  AcyclicRelease(Tail(neighbors), dec,
                 IF dec[neighbor] = 0 THEN Append(queue, neighbor) ELSE queue)

\* while queue: current = queue.popleft(); processed_count += 1; ...
RECURSIVE AcyclicLoop(_, _, _, _)
AcyclicLoop(adj, indeg, queue, processed_count) ==
    IF queue = <<>> THEN processed_count
    ELSE LET r == AcyclicRelease(adj[Head(queue)], indeg, Tail(queue))
         IN  AcyclicLoop(adj, r.in_degree, r.queue, processed_count + 1)

\* processed_count when the loop ends; the queue starts with the keys of
\* in_degree whose value is 0, in the dict's order.
ProcessedCount(ns, es) ==
    LET indeg == in_degree(ns, es)
    IN  AcyclicLoop(adjacency(ns, es), indeg,
                    SelectSeq(KeyOrder(ns), LAMBDA id : indeg[id] = 0), 0)

\* check_acyclic with <= in place of ==.
check_acyclic_AtMost(ns, es) ==
    ProcessedCount(ns, es) <= Len(ns)

\* return processed_count == len(nodes).  Defined when the construction of
\* the tables does not raise.
check_acyclic(ns, es) ==
    ProcessedCount(ns, es) = Len(ns)

\* ------------------------------------------------------ validate_dag_config

\* The messages appended to validation_errors, by the check that fails; node
\* is the id the message quotes ("" when it quotes none).
\*   "empty"        DAG must contain at least one node
\*   "duplicate"    node ids must be unique
\*   "unknown_from" an edge references a start node that does not exist
\*   "unknown_to"   an edge references a target node that does not exist
\*   "cycle"        DAG must not contain a cycle
Error(kind, id) ==
    [kind |-> kind, node |-> id]

\* The first edge, in edge order, that fails one of the two membership tests.
FirstBadEdge(ns, es) ==
    CHOOSE i \in 1..Len(es) :
        /\ es[i].from_node \notin IdSet(ns) \/ es[i].to_node \notin IdSet(ns)
        /\ \A j \in 1..(i - 1) :
               es[j].from_node \in IdSet(ns) /\ es[j].to_node \in IdSet(ns)

\* The edge checks of validate_dag_config and what follows them.
ValidateEdges(ns, es, with_cycle_check) ==
    IF RaisesKeyError(ns, es)
    THEN LET edge == es[FirstBadEdge(ns, es)]
         IN  [ok |-> FALSE,
              errors |-> IF edge.from_node \notin IdSet(ns)
                         THEN <<Error("unknown_from", edge.from_node)>>
                         ELSE <<Error("unknown_to", edge.to_node)>>,
              cycle_checked |-> FALSE]
    ELSE IF with_cycle_check /\ ~check_acyclic(ns, es)
    THEN [ok |-> FALSE, errors |-> <<Error("cycle", "")>>,
          cycle_checked |-> TRUE]
    ELSE [ok |-> TRUE, errors |-> <<>>, cycle_checked |-> with_cycle_check]

\* validate_dag_config without the call of _check_acyclic.
validate_dag_config_NoCycleCheck(ns, es) ==
    IF Len(ns) = 0
    THEN [ok |-> FALSE, errors |-> <<Error("empty", "")>>,
          cycle_checked |-> FALSE]
    ELSE IF Len(node_ids(ns)) # Cardinality(IdSet(ns))
    THEN [ok |-> FALSE, errors |-> <<Error("duplicate", "")>>,
          cycle_checked |-> FALSE]
    ELSE ValidateEdges(ns, es, FALSE)

\* validate_dag_config without the test of the ids' uniqueness.
validate_dag_config_NoDuplicateCheck(ns, es) ==
    IF Len(ns) = 0
    THEN [ok |-> FALSE, errors |-> <<Error("empty", "")>>,
          cycle_checked |-> FALSE]
    ELSE ValidateEdges(ns, es, TRUE)

\* validate_dag_config without the test of the node list being empty.
validate_dag_config_NoEmptyCheck(ns, es) ==
    IF Len(node_ids(ns)) # Cardinality(IdSet(ns))
    THEN [ok |-> FALSE, errors |-> <<Error("duplicate", "")>>,
          cycle_checked |-> FALSE]
    ELSE ValidateEdges(ns, es, TRUE)

\* The value returned (ok), the validation_errors left behind, and whether
\* _check_acyclic was called.
validate_dag_config(ns, es) ==
    IF Len(ns) = 0
    THEN [ok |-> FALSE, errors |-> <<Error("empty", "")>>,
          cycle_checked |-> FALSE]
    ELSE IF Len(node_ids(ns)) # Cardinality(IdSet(ns))
    THEN [ok |-> FALSE, errors |-> <<Error("duplicate", "")>>,
          cycle_checked |-> FALSE]
    ELSE IF RaisesKeyError(ns, es)
    THEN LET edge == es[FirstBadEdge(ns, es)]
         IN  [ok |-> FALSE,
              errors |-> IF edge.from_node \notin IdSet(ns)
                         THEN <<Error("unknown_from", edge.from_node)>>
                         ELSE <<Error("unknown_to", edge.to_node)>>,
              cycle_checked |-> FALSE]
    ELSE IF ~check_acyclic(ns, es)
    THEN [ok |-> FALSE, errors |-> <<Error("cycle", "")>>,
          cycle_checked |-> TRUE]
    ELSE [ok |-> TRUE, errors |-> <<>>, cycle_checked |-> TRUE]

\* ------------------------------------------------------- get_dag_statistics

\* sum(d.values()) over the keys of a degree dict.
RECURSIVE SumValues(_, _)
SumValues(d, keys) ==
    IF keys = <<>> THEN 0
    ELSE d[Head(keys)] + SumValues(d, Tail(keys))

\* "status = node.status": the status taken as it is, absent or not.
StatusKeyAsGiven(node) ==
    node.status

\* status_counts after "for node in nodes: status = node.status or 'unknown'".
StatusKey(node) ==
    IF Truthy(node.status) THEN node.status ELSE "unknown"

status_counts(ns) ==
    [s \in {StatusKey(ns[i]) : i \in 1..Len(ns)} |->
        Cardinality({i \in 1..Len(ns) : StatusKey(ns[i]) = s})]

\* density over unordered pairs of nodes: len(nodes) * (len(nodes) - 1) / 2
\* in place of the number of ordered pairs.
densityUnorderedPairs(ns, es) ==
    LET n == Len(ns)
        capacity == (n * (n - 1)) \div 2
    IN  [num |-> Len(es), den |-> IF capacity > 1 THEN capacity ELSE 1]

\* len(edges) / max(1, len(nodes) * (len(nodes) - 1))
density(ns, es) ==
    LET n == Len(ns)
        capacity == n * (n - 1)
    IN  [num |-> Len(es), den |-> IF capacity > 1 THEN capacity ELSE 1]

\* sum(degree.values()) / len(nodes) if nodes else 0
avg_degree(degree, ns) ==
    IF Len(ns) # 0
    THEN [num |-> SumValues(degree, KeyOrder(ns)), den |-> Len(ns)]
    ELSE [num |-> 0, den |-> 1]

\* get_dag_statistics selecting the start nodes by out-degree and the end
\* nodes by in-degree.
get_dag_statistics_SwappedDegrees(ns, es) ==
    LET indeg == in_degree(ns, es)
        outdeg == out_degree(ns, es)
        ids == node_ids(ns)
    IN  [total_nodes |-> Len(ns),
         total_edges |-> Len(es),
         density |-> density(ns, es),
         start_nodes |-> SelectSeq(ids, LAMBDA id : outdeg[id] = 0),
         end_nodes |-> SelectSeq(ids, LAMBDA id : indeg[id] = 0),
         status_distribution |-> status_counts(ns),
         avg_in_degree |-> avg_degree(indeg, ns),
         avg_out_degree |-> avg_degree(outdeg, ns)]

\* The dict returned.  Defined when the construction of the tables does not
\* raise.
get_dag_statistics(ns, es) ==
    LET indeg == in_degree(ns, es)
        outdeg == out_degree(ns, es)
        ids == node_ids(ns)
    IN  [total_nodes |-> Len(ns),
         total_edges |-> Len(es),
         density |-> density(ns, es),
         start_nodes |-> SelectSeq(ids, LAMBDA id : indeg[id] = 0),
         end_nodes |-> SelectSeq(ids, LAMBDA id : outdeg[id] = 0),
         status_distribution |-> status_counts(ns),
         avg_in_degree |-> avg_degree(indeg, ns),
         avg_out_degree |-> avg_degree(outdeg, ns)]

\* -------------------------------------------------- generate_execution_order

\* dependencies without "and edge.label": the label of every edge into the node.
dependenciesAnyLabel(es, id) ==
    LET into == SelectSeq(es, LAMBDA e : e.to_node = id)
    IN  [k \in 1..Len(into) |-> into[k].label]

\* dependencies: the labels of the edges into the node that have a truthy label.
dependencies(es, id) ==
    LET into == SelectSeq(es, LAMBDA e : e.to_node = id /\ Truthy(e.label))
    IN  [k \in 1..Len(into) |-> into[k].label]

\* ExecutionStep with "step": i in place of "step": i + 1.
ExecutionStepZeroBased(i, node, es) ==
    [step |-> i,
     node_id |-> node.id,
     node_name |-> node.name,
     dependencies |-> dependencies(es, node.id),
     status |-> IF Truthy(node.status) THEN node.status ELSE "pending"]

\* The dict appended for enumerate(topo_order)'s pair (i, node).
ExecutionStep(i, node, es) ==
    [step |-> i + 1,
     node_id |-> node.id,
     node_name |-> node.name,
     dependencies |-> dependencies(es, node.id),
     status |-> IF Truthy(node.status) THEN node.status ELSE "pending"]

\* start_nodes after the "if not start_nodes:" block: the argument when it is
\* a non-empty list, the ids of the nodes of in-degree 0 otherwise.
EffectiveStartNodes(ns, es, start_given, start_nodes) ==
    IF start_given /\ start_nodes # <<>>
    THEN start_nodes
    ELSE SelectSeq(node_ids(ns), LAMBDA id : in_degree(ns, es)[id] = 0)

\* generate_execution_order listing only the nodes named by start_nodes.
generate_execution_order_FromStart(ns, es, start_given, start_nodes) ==
    LET start == EffectiveStartNodes(ns, es, start_given, start_nodes)
        topo_order == SelectSeq(get_topological_order(ns, es),
                          LAMBDA n : \E k \in 1..Len(start) : start[k] = ns[n].id)
    IN  [i \in 1..Len(topo_order) |->
            ExecutionStep(i - 1, ns[topo_order[i]], es)]

\* The list returned for the argument start_nodes (start_given = FALSE when it
\* is omitted or None).  The start nodes are computed and not used.  Defined
\* when get_topological_order does not raise.
generate_execution_order(ns, es, start_given, start_nodes) ==
    LET topo_order == get_topological_order(ns, es)
        start == EffectiveStartNodes(ns, es, start_given, start_nodes)
    IN  [i \in 1..Len(topo_order) |->
            ExecutionStep(i - 1, ns[topo_order[i]], es)]

\* ------------------------------------------------------- optimize_dag_layout

\* x = (index - len(level_nodes) / 2) * 150
HorizontalSpacing == 150

\* y = level * 100
VerticalSpacing == 100

\* The dict {"x": x, "y": y}.  A coordinate the code computes exactly is an
\* integer here; a coordinate of the circular layout is the quotient num/den
\* of the real-number value of its expression.
Position(x, y) ==
    <<x, y>>

\* The (child_node, level + 1) pairs appended while the edges are scanned for
\* the node popped: one per edge that leaves it for an id not yet visited, in
\* edge-list order, the child being the first node with the edge's target id.
LevelChildren(ns, es, id, level, visited) ==
    LET leaving == SelectSeq(es, LAMBDA e :
                       e.from_node = id /\ e.to_node \notin visited)
    IN  [k \in 1..Len(leaving) |->
            <<FirstNodeWithId(ns, leaving[k].to_node), level + 1>>]

\* LevelLoop with queue.pop() in place of queue.pop(0): the pair appended
\* last is taken first.
RECURSIVE LevelLoopLastFirst(_, _, _, _, _)
LevelLoopLastFirst(ns, es, queue, visited, node_levels) ==
    IF queue = <<>> THEN node_levels
    ELSE LET current == queue[Len(queue)]
             rest == SubSeq(queue, 1, Len(queue) - 1)
             id == ns[current[1]].id
             level == current[2]
         IN  IF id \in visited
             THEN LevelLoopLastFirst(ns, es, rest, visited, node_levels)
             ELSE LevelLoopLastFirst(
                      ns, es,
                      rest \o LevelChildren(ns, es, id, level,
                                            visited \cup {id}),
                      visited \cup {id},
                      Append(node_levels, [id |-> id, level |-> level]))

\* "while queue:" of _hierarchical_layout.  queue holds (node, level) pairs,
\* the node as its place in the node list; node_levels is the dict as the
\* list of its items in insertion order.
RECURSIVE LevelLoop(_, _, _, _, _)
LevelLoop(ns, es, queue, visited, node_levels) ==
    IF queue = <<>> THEN node_levels
    ELSE LET current == Head(queue)
             id == ns[current[1]].id
             level == current[2]
         IN  IF id \in visited
             THEN LevelLoop(ns, es, Tail(queue), visited, node_levels)
             ELSE LevelLoop(
                      ns, es,
                      Tail(queue) \o LevelChildren(ns, es, id, level,
                                                   visited \cup {id}),
                      visited \cup {id},
                      Append(node_levels, [id |-> id, level |-> level]))

\* node_levels when the loop ends, from the queue of the nodes of in-degree 0.
NodeLevels(ns, es) ==
    LET indeg == in_degree(ns, es)
        start_nodes == SelectSeq([i \in 1..Len(ns) |-> i],
                                 LAMBDA i : indeg[ns[i].id] = 0)
    IN  LevelLoop(ns, es,
                  [k \in 1..Len(start_nodes) |-> <<start_nodes[k], 0>>],
                  {}, <<>>)

\* nodes_at_level[level]: the ids of that level in the order of node_levels.
nodes_at_level(node_levels, level) ==
    LET items == SelectSeq(node_levels, LAMBDA item : item.level = level)
    IN  [k \in 1..Len(items) |-> items[k].id]

\* level_nodes.index(node_id), from 0.
ListIndex(level_nodes, id) ==
    (CHOOSE k \in 1..Len(level_nodes) :
        level_nodes[k] = id /\ \A j \in 1..(k - 1) : level_nodes[j] # id) - 1

\* LevelPosition with the level centred on x = 0:
\* (index - (len(level_nodes) - 1) / 2) * 150.
LevelPositionCentred(index, size, level) ==
    Position(((2 * index - (size - 1)) * HorizontalSpacing) \div 2,
             level * VerticalSpacing)

\* x = (index - len(level_nodes) / 2) * 150 and y = level * 100.  The spacing
\* is even, so x is the integer (2 * index - len) * 150 / 2.
LevelPosition(index, size, level) ==
    Position(((2 * index - size) * HorizontalSpacing) \div 2,
             level * VerticalSpacing)

\* LevelIndex as the place of the node among the nodes of its level in
\* node-list order.
LevelIndexByNodeList(ns, level_nodes, id) ==
    Cardinality({i \in 1..(FirstNodeWithId(ns, id) - 1) :
                    \E k \in 1..Len(level_nodes) : level_nodes[k] = ns[i].id})

\* index = level_nodes.index(node.id)
LevelIndex(ns, level_nodes, id) ==
    ListIndex(level_nodes, id)

\* _hierarchical_layout returning a graph of the positioned nodes only.
hierarchical_layout_PositionedOnly(ns, es) ==
    IF \E k \in 1..Len(es) : es[k].to_node \notin IdSet(ns)
    THEN [raised |-> TRUE, nodes |-> ns]
    ELSE LET node_levels == NodeLevels(ns, es)
             level_of(id) ==
                 (CHOOSE item \in {node_levels[k] : k \in 1..Len(node_levels)} :
                     item.id = id).level
             placed == SelectSeq(ns, LAMBDA node :
                           \E k \in 1..Len(node_levels) :
                               node_levels[k].id = node.id)
         IN  [raised |-> FALSE,
              nodes |->
                  [i \in 1..Len(placed) |->
                      LET level == level_of(placed[i].id)
                          level_nodes == nodes_at_level(node_levels, level)
                      IN  [placed[i] EXCEPT !.position =
                              LevelPosition(
                                  LevelIndex(ns, level_nodes, placed[i].id),
                                  Len(level_nodes), level)]]]

\* _hierarchical_layout: KeyError at in_degree[edge.to_node] for a target
\* that is no node, before any position is written; else the nodes with the
\* positions assigned to those that have a level.
hierarchical_layout(ns, es) ==
    IF \E k \in 1..Len(es) : es[k].to_node \notin IdSet(ns)
    THEN [raised |-> TRUE, nodes |-> ns]
    ELSE LET node_levels == NodeLevels(ns, es)
             has_level(id) ==
                 \E k \in 1..Len(node_levels) : node_levels[k].id = id
             level_of(id) ==
                 (CHOOSE item \in {node_levels[k] : k \in 1..Len(node_levels)} :
                     item.id = id).level
         IN  [raised |-> FALSE,
              nodes |->
                  [i \in 1..Len(ns) |->
                      IF has_level(ns[i].id)
                      THEN LET level == level_of(ns[i].id)
                               level_nodes ==
                                   nodes_at_level(node_levels, level)
                           IN  [ns[i] EXCEPT !.position =
                                   LevelPosition(
                                       LevelIndex(ns, level_nodes, ns[i].id),
                                       Len(level_nodes), level)]
                      ELSE ns[i]]]

\* One coordinate of _circular_layout, offset 0 for x and 1/2 for y:
\*     radius * 1.2 * (1 + 0.3 * n * 0.1) * (0.6 + 0.4 * ((angle + offset) % 1))
\* with radius = max(200, n * 50) and angle = 2 * 3.14159 * i / n, as the
\* quotient of integers it equals: angle is 314159 * i / (50000 * n), so with
\* D = 50000 * n and k = (314159 * i + offset * D) % D the last factor is
\* (3 * D + 2 * k) / (5 * D), and the product of the others is
\* (radius / 50) * 3 * (100 + 3 * n) / 5.
CircularCoordinate(n, i, twice_offset) ==
    LET radius == IF n * 50 > 200 THEN n * 50 ELSE 200
        D == 50000 * n
        k == (314159 * i + (twice_offset * D) \div 2) % D
    IN  [num |-> (radius \div 50) * 3 * (100 + 3 * n) * (3 * D + 2 * k),
         den |-> 25 * D]

\* _circular_layout: every node is given a position, the i-th (from 0) from
\* its angle; with no node the loop body, and its division by n, never runs.
circular_layout(ns, es) ==
    [raised |-> FALSE,
     nodes |-> [j \in 1..Len(ns) |->
                   [ns[j] EXCEPT !.position =
                       Position(CircularCoordinate(Len(ns), j - 1, 0),
                                CircularCoordinate(Len(ns), j - 1, 1))]]]

\* The position a node has after the five passes when some pass adds a force
\* to it: the point it started from, displaced.  The displacement is a sum of
\* real-number quotients that the model does not compute.
Repelled(start) ==
    <<start[1], start[2], "repelled">>

\* _force_layout not touching a graph of fewer than two nodes.
force_layout_FromTwoNodes(ns, es, draw) ==
    [raised |-> FALSE,
     nodes |-> [i \in 1..Len(ns) |->
                   IF Len(ns) < 2 THEN ns[i]
                   ELSE [ns[i] EXCEPT !.position = Repelled(draw[i])]]]

\* _force_layout: every node is first given the point drawn for it,
\* draw[i] = (random.uniform(-300, 300), random.uniform(-200, 200)).  A pass
\* adds to a node a force from each node of another id at a distance > 0, so
\* a node with no such node (a single node, nodes all drawn on one point)
\* gets force 0 in every pass and keeps the point drawn, x + 0 * 0.1 = x.
\* No step raises: the edges are not read and dist > 0 guards the division.
force_layout(ns, es, draw) ==
    [raised |-> FALSE,
     nodes |-> [i \in 1..Len(ns) |->
                   [ns[i] EXCEPT !.position =
                       IF \E j \in 1..Len(ns) :
                              ns[j].id # ns[i].id /\ draw[j] # draw[i]
                       THEN Repelled(draw[i])
                       ELSE draw[i]]]]

\* optimize_dag_layout laying out hierarchically under any other name.
optimize_dag_layout_HierarchicalByDefault(ns, es, layout_type, draw) ==
    CASE layout_type = "circular" -> circular_layout(ns, es)
      [] layout_type = "force" -> force_layout(ns, es, draw)
      [] OTHER -> hierarchical_layout(ns, es)

\* optimize_dag_layout: the dispatch on layout_type; any other name returns
\* the graph as it is.
optimize_dag_layout(ns, es, layout_type, draw) ==
    CASE layout_type = "hierarchical" -> hierarchical_layout(ns, es)
      [] layout_type = "circular" -> circular_layout(ns, es)
      [] layout_type = "force" -> force_layout(ns, es, draw)
      [] OTHER -> [raised |-> FALSE, nodes |-> ns]

\* ----------------------------------------------------- _escape_mermaid_text

\* A text is the sequence of its characters.

\* special_chars, in the order of the list.
special_chars ==
    <<"\"", "'", "\\", "[", "]", "{", "}", "(", ")", "#", "*", "+", "-", ".",
      "/", ":">>

\* text.replace(char, by) for a single character char.
RECURSIVE Replace(_, _, _)
Replace(text, char, by) ==
    IF text = <<>> THEN <<>>
    ELSE (IF Head(text) = char THEN by ELSE <<Head(text)>>)
         \o Replace(Tail(text), char, by)

\* "for char in special_chars: escaped_text = escaped_text.replace(char,
\* f'\\{char}')" from the k-th character of the list on: each replacement
\* runs over the text the earlier ones have produced.
RECURSIVE EscapeFrom(_, _)
EscapeFrom(escaped_text, k) ==
    IF k > Len(special_chars) THEN escaped_text
    ELSE EscapeFrom(Replace(escaped_text, special_chars[k],
                            <<"\\", special_chars[k]>>),
                    k + 1)

escape_mermaid_text(text) ==
    EscapeFrom(text, 1)

\* ------------------------------------------------------- convert_to_mermaid

\* A text the code builds is the sequence of its pieces: the characters of a
\* name, and one piece for each literal of the code, each id, label and
\* description. Only a name's character "\n" is a line break.

\* Node count and edge count up to which the "flowchart TD" directive is
\* chosen.
FlowchartMaxNodes == 10

FlowchartMaxEdges == 15

get_node_status_style_KnownOnly(status) ==
    IF ~Truthy(status) THEN <<>>
    ELSE CASE status = "completed" -> <<":::success">>
           [] status = "failed" -> <<":::danger">>
           [] status = "running" -> <<":::warning">>
           [] status = "pending" -> <<":::info">>
           [] OTHER -> <<>>

\* _get_node_status_style: "" for a falsy status, the class of the four
\* known statuses, and ":::info" in the final else branch.
get_node_status_style(status) ==
    IF ~Truthy(status) THEN <<>>
    ELSE CASE status = "completed" -> <<":::success">>
           [] status = "failed" -> <<":::danger">>
           [] status = "running" -> <<":::warning">>
           [] status = "pending" -> <<":::info">>
           [] OTHER -> <<":::info">>

\* "node_content = self._escape_mermaid_text(node.name)", then the
\* description, when truthy, after the two characters backslash and n, twice,
\* and between asterisks.
node_content(node) ==
    escape_mermaid_text(node.name)
    \o (IF Truthy(node.description)
        THEN <<"\\n\\n*", node.description, "*">>
        ELSE <<>>)

\* f'    {node.id}["{node_content}"]{status_style}'
node_line(node) ==
    <<"    ", node.id, "[\"">> \o node_content(node) \o <<"\"]">>
    \o get_node_status_style(node.status)

arrow_text_NotNone(edge) ==
    IF edge.label # None THEN <<"|", edge.label, "|">> ELSE <<>>

\* "arrow_text = f'|{edge.label}|' if edge.label else ''"
arrow_text(edge) ==
    IF Truthy(edge.label) THEN <<"|", edge.label, "|">> ELSE <<>>

\* f'    {edge.from_node} -->{arrow_text} {edge.to_node}'
edge_line(edge) ==
    <<"    ", edge.from_node, " -->">> \o arrow_text(edge)
    \o <<" ", edge.to_node>>

directive_EitherSmall(ns, es) ==
    IF Len(ns) <= FlowchartMaxNodes \/ Len(es) <= FlowchartMaxEdges
    THEN <<"flowchart TD">>
    ELSE <<"graph TD">>

\* The first line: "if len(dag_element.nodes) <= 10 and
\* len(dag_element.edges) <= 15".
directive(ns, es) ==
    IF Len(ns) <= FlowchartMaxNodes /\ Len(es) <= FlowchartMaxEdges
    THEN <<"flowchart TD">>
    ELSE <<"graph TD">>

\* '\n'.join(lines)
RECURSIVE Join(_)
Join(lines) ==
    IF lines = <<>> THEN <<>>
    ELSE IF Len(lines) = 1 THEN lines[1]
    ELSE lines[1] \o <<"\n">> \o Join(Tail(lines))

\* mermaid_lines: the directive, a line for each node, a line for each edge.
mermaid_lines(ns, es) ==
    <<directive(ns, es)>>
    \o [i \in 1..Len(ns) |-> node_line(ns[i])]
    \o [k \in 1..Len(es) |-> edge_line(es[k])]

convert_to_mermaid(ns, es) ==
    Join(mermaid_lines(ns, es))

\* ---------------------------------------------------------------- FileManager

\* A directory is the function from the names of its files to the files; a
\* file is [bytes, mtime], bytes the sequence of the characters stored and
\* mtime the hour of the last write. A path is [directory, filename] with
\* directory "base_dir" or "temp_dir".

\* A character that utf-8 cannot encode (a lone surrogate), as one piece.
LoneSurrogate == "\\ud800"

Put(dir, name, file) ==
    [n \in DOMAIN dir \cup {name} |-> IF n = name THEN file ELSE dir[n]]

Remove(dir, name) ==
    [n \in DOMAIN dir \ {name} |-> dir[n]]

Path(directory, filename) ==
    [directory |-> directory, filename |-> filename]

\* The None that get_file_path returns for a file of neither directory.
NoPath ==
    Path(None, None)

\* f.write(content) on a file opened with open(file_path, 'w',
\* encoding='utf-8'): text mode writes the platform's line separator for
\* every "\n".
WriteText(content, sep) ==
    Replace(content, "\n", sep)

\* f.read() on a file opened with open(file_path, 'r', encoding='utf-8'):
\* text mode returns "\n" for every "\r\n" and for every other "\r".
RECURSIVE ReadText(_)
ReadText(bytes) ==
    IF bytes = <<>> THEN <<>>
    ELSE IF Head(bytes) = "\r"
    THEN <<"\n">> \o (IF Len(bytes) >= 2 /\ bytes[2] = "\n"
                      THEN ReadText(Tail(Tail(bytes)))
                      ELSE ReadText(Tail(bytes)))
    ELSE <<Head(bytes)>> \o ReadText(Tail(bytes))

\* save_file into the directory dir: open(..., 'w') leaves the file empty,
\* write raises for a character utf-8 cannot encode, and the exception is
\* raised again.
save_file(dir, filename, content, sep, time) ==
    IF \E k \in 1..Len(content) : content[k] = LoneSurrogate
    THEN [raised |-> TRUE,
          dir |-> Put(dir, filename, [bytes |-> <<>>, mtime |-> time])]
    ELSE [raised |-> FALSE,
          dir |-> Put(dir, filename,
                      [bytes |-> WriteText(content, sep), mtime |-> time])]

\* read_file: the file of base_dir, else that of temp_dir, else
\* FileNotFoundError.
read_file(base, temp, filename) ==
    IF filename \in DOMAIN base
    THEN [raised |-> FALSE, content |-> ReadText(base[filename].bytes)]
    ELSE IF filename \in DOMAIN temp
    THEN [raised |-> FALSE, content |-> ReadText(temp[filename].bytes)]
    ELSE [raised |-> TRUE, content |-> <<>>]

\* get_file_path: the path in base_dir, else that in temp_dir, else None.
get_file_path(base, temp, filename) ==
    IF filename \in DOMAIN base THEN Path("base_dir", filename)
    ELSE IF filename \in DOMAIN temp THEN Path("temp_dir", filename)
    ELSE NoPath

\* file_exists: "self.get_file_path(filename) is not None"
file_exists(base, temp, filename) ==
    get_file_path(base, temp, filename) # NoPath

\* delete_file: os.remove of the path get_file_path returns; False when it
\* returns None.
delete_file(base, temp, filename) ==
    LET file_path == get_file_path(base, temp, filename)
    IN  IF file_path = NoPath
        THEN [ok |-> FALSE, base |-> base, temp |-> temp]
        ELSE IF file_path.directory = "base_dir"
        THEN [ok |-> TRUE, base |-> Remove(base, filename), temp |-> temp]
        ELSE [ok |-> TRUE, base |-> base, temp |-> Remove(temp, filename)]

\* cleanup_temp_files: the files of temp_dir last written before
\* time - max_age_hours are removed and counted.
cleanup_temp_files(temp, time, max_age_hours) ==
    LET old == {n \in DOMAIN temp : temp[n].mtime < time - max_age_hours}
    IN  [count |-> Cardinality(old),
         temp |-> [n \in DOMAIN temp \ old |-> temp[n]]]

\* schedule_cleanup: a task is appended.
schedule_cleanup(tasks, file_path, time, ttl_hours) ==
    Append(tasks, [file_path |-> file_path, cleanup_time |-> time + ttl_hours,
                   ttl_hours |-> ttl_hours])

\* process_cleanup_tasks: the files of the tasks that are due are removed
\* and the tasks that are not due are kept.
process_cleanup_tasks(base, temp, tasks, time) ==
    LET due == {tasks[k].file_path :
                   k \in {j \in 1..Len(tasks) : tasks[j].cleanup_time <= time}}
        Gone(directory) == {q.filename : q \in {d \in due : d.directory = directory}}
    IN  [base |-> [n \in DOMAIN base \ Gone("base_dir") |-> base[n]],
         temp |-> [n \in DOMAIN temp \ Gone("temp_dir") |-> temp[n]],
         tasks |-> SelectSeq(tasks, LAMBDA task : task.cleanup_time > time)]

\* ------------------------------------------------------------ validate_config

\* An element of a configuration: its type, and the fields of the type that
\* the validation reads (title and data of a chart, nodes and edges of a
\* DAG); the other fields are None or empty.
Element(type, title, data, ns, es) ==
    [type |-> type, title |-> title, data |-> data, nodes |-> ns,
     edges |-> es]

\* "not title or not title.strip()" for the titles drawn.
Blank(title) ==
    title \in {"", " "}

\* validate_chart_config: the message of the ValueError it raises, None when
\* it returns True. The data of a chart, when given, is complete for its
\* chart type.
validate_chart_config(element) ==
    IF Blank(element.title) THEN "chart title must not be empty"
    ELSE IF element.data = None THEN "chart data must not be empty"
    ELSE None

\* The places (indices) of the elements of a type.
ElementsOfType(elements, type) ==
    SelectSeq([i \in 1..Len(elements) |-> i],
              LAMBDA i : elements[i].type = type)

\* chart_errors: a message for every chart element whose validation raises.
chart_errors(elements) ==
    LET raising == SelectSeq(ElementsOfType(elements, "chart"),
                       LAMBDA i : validate_chart_config(elements[i]) # None)
    IN  [k \in 1..Len(raising) |->
            [element |-> raising[k],
             message |-> validate_chart_config(elements[raising[k]])]]

\* dag_errors: a message for every DAG element whose validation raises.
\* validate_dag_config returns True or False and raises for no element, and
\* the value it returns is not looked at.
dag_errors(elements) ==
    LET raising == SelectSeq(ElementsOfType(elements, "dag"),
                             LAMBDA i : FALSE)
    IN  [k \in 1..Len(raising) |->
            [element |-> raising[k], message |-> "raised"]]

\* validation_errors of the shared dag_handler after the loop over the DAG
\* elements: those of the last DAG element, when there is one.
ErrorsAfterDagLoop(elements, errors_before) ==
    LET dags == ElementsOfType(elements, "dag")
    IN  IF dags = <<>> THEN errors_before
        ELSE validate_dag_config(elements[dags[Len(dags)]].nodes,
                                 elements[dags[Len(dags)]].edges).errors

\* The answer of validate_config and whether the loop over the DAG elements
\* was reached.
validate_config(cfg) ==
    IF Blank(cfg.title)
    THEN [status_code |-> 400, valid |-> FALSE,
          errors |-> <<[element |-> 0, message |-> "title must not be empty"]>>,
          dag_loop |-> FALSE]
    ELSE IF cfg.elements = <<>>
    THEN [status_code |-> 400, valid |-> FALSE,
          errors |-> <<[element |-> 0,
                        message |-> "a report needs at least one element"]>>,
          dag_loop |-> FALSE]
    ELSE IF chart_errors(cfg.elements) # <<>>
    THEN [status_code |-> 400, valid |-> FALSE,
          errors |-> chart_errors(cfg.elements), dag_loop |-> FALSE]
    ELSE IF dag_errors(cfg.elements) # <<>>
    THEN [status_code |-> 400, valid |-> FALSE,
          errors |-> dag_errors(cfg.elements), dag_loop |-> TRUE]
    ELSE [status_code |-> 200, valid |-> TRUE, errors |-> <<>>,
          dag_loop |-> TRUE]

\* ------------------------------------------------------------------- state

NoStats ==
    [total_nodes |-> 0, total_edges |-> 0, density |-> [num |-> 0, den |-> 1],
     start_nodes |-> <<>>, end_nodes |-> <<>>, status_distribution |-> <<>>,
     avg_in_degree |-> [num |-> 0, den |-> 1],
     avg_out_degree |-> [num |-> 0, den |-> 1]]

\* No Kahn loop is running.
NoKahn ==
    [fn |-> "none", pc |-> "idle", in_degree |-> <<>>, queue |-> <<>>,
     processed |-> <<>>, node_queue |-> <<>>, topo_order |-> <<>>]

\* No configuration has been sent.
NoConfig ==
    [title |-> "", elements |-> <<>>]

\* A directory without files: a directory is the function from the names of
\* its files to the files, each [bytes, mtime].
EmptyDir == <<>>

\* Outside the DAG handler nothing has happened yet.
OtherStateAtStart ==
    /\ kahn = NoKahn
    /\ config = NoConfig
    /\ base_dir = EmptyDir
    /\ temp_dir = EmptyDir
    /\ cleanup_tasks = <<>>
    /\ now = 0
    /\ linesep = <<"\n">>

\* The outcome of the last call: which method, with which start_nodes,
\* whether it raised, and what it returned; for validate_dag_config also the
\* validation_errors the handler held when the call began; for a call of
\* FileManager its arguments filename, content and temp, the text returned
\* in text and the truth value returned in ok; for an endpoint the status
\* code of its answer and the answer's fields valid and errors.
NoResult ==
    [op |-> "none", raised |-> FALSE, ok |-> FALSE, cycle_checked |-> FALSE,
     order |-> <<>>, steps |-> <<>>, stats |-> NoStats,
     start_given |-> FALSE, start_nodes |-> <<>>,
     layout_type |-> None, returned_input |-> FALSE, text |-> <<>>,
     errors_at_entry |-> <<>>,
     filename |-> None, content |-> <<>>, temp |-> FALSE,
     status_code |-> 0, valid |-> FALSE, errors |-> <<>>]

Raised(op) ==
    [NoResult EXCEPT !.op = op, !.raised = TRUE]

\* The start_nodes arguments a caller passes: omitted, an empty list, ids of
\* the graph, an id that is no node.
StartNodeArgs ==
    {[given |-> FALSE, ids |-> <<>>],
     [given |-> TRUE, ids |-> <<>>],
     [given |-> TRUE, ids |-> <<"b", "a">>],
     [given |-> TRUE, ids |-> <<"zz">>]}

\* DAGHandler.__init__ and a request whose edges have no labels.
Init ==
    /\ nodes \in NodeLists
    /\ edges \in SeqsUpTo(PlainEdges, MaxEdges)
    /\ validation_errors = <<>>
    /\ result = NoResult
    /\ OtherStateAtStart

\* DAGHandler.__init__ and a request whose edges may have labels.
InitExec ==
    /\ nodes \in NodeLists
    /\ \E es \in LabelledEdgeLists : edges = Labelled(es)
    /\ validation_errors = <<>>
    /\ result = NoResult
    /\ OtherStateAtStart

ValidateDagConfig_KeepingErrors ==
    /\ result.op = "none"
    /\ LET v == validate_dag_config(nodes, edges)
       IN  /\ validation_errors' = validation_errors \o v.errors
           /\ result' = [NoResult EXCEPT !.op = "validate_dag_config",
                            !.ok = v.ok, !.cycle_checked = v.cycle_checked,
                            !.errors_at_entry = validation_errors]
    /\ UNCHANGED <<nodes, edges, other_state>>

\* validate_dag_config(dag_element): "self.validation_errors = []" first,
\* then the checks.
ValidateDagConfig ==
    /\ result.op = "none"
    /\ LET v == validate_dag_config(nodes, edges)
       IN  /\ validation_errors' = v.errors
           /\ result' = [NoResult EXCEPT !.op = "validate_dag_config",
                            !.ok = v.ok, !.cycle_checked = v.cycle_checked,
                            !.errors_at_entry = validation_errors]
    /\ UNCHANGED <<nodes, edges, other_state>>

CheckAcyclic ==
    /\ result.op = "none"
    /\ result' = IF RaisesKeyError(nodes, edges)
                 THEN Raised("check_acyclic")
                 ELSE [NoResult EXCEPT !.op = "check_acyclic",
                          !.ok = check_acyclic(nodes, edges)]
    /\ UNCHANGED <<nodes, edges, validation_errors, other_state>>

GetTopologicalOrder_RemovingEdges ==
    /\ result.op = "none"
    /\ result' = IF RaisesKeyError(nodes, edges)
                 THEN Raised("get_topological_order")
                 ELSE [NoResult EXCEPT !.op = "get_topological_order",
                          !.order = get_topological_order(nodes, edges)]
    /\ edges' = IF RaisesKeyError(nodes, edges) THEN edges
                ELSE LET order == get_topological_order(nodes, edges)
                         emitted == {nodes[order[i]].id : i \in 1..Len(order)}
                         Kept(e) == e.from_node \notin emitted
                     IN  SelectSeq(edges, Kept)
    /\ UNCHANGED <<nodes, validation_errors, other_state>>

GetTopologicalOrder ==
    /\ result.op = "none"
    /\ result' = IF RaisesKeyError(nodes, edges)
                 THEN Raised("get_topological_order")
                 ELSE [NoResult EXCEPT !.op = "get_topological_order",
                          !.order = get_topological_order(nodes, edges)]
    /\ UNCHANGED <<nodes, edges, validation_errors, other_state>>

GetDagStatistics ==
    /\ result.op = "none"
    /\ result' = IF RaisesKeyError(nodes, edges)
                 THEN Raised("get_dag_statistics")
                 ELSE [NoResult EXCEPT !.op = "get_dag_statistics",
                          !.stats = get_dag_statistics(nodes, edges)]
    /\ UNCHANGED <<nodes, edges, validation_errors, other_state>>

GenerateExecutionOrder ==
    /\ result.op = "none"
    /\ \E arg \in StartNodeArgs :
          result' =
              IF RaisesKeyError(nodes, edges)
              THEN [Raised("generate_execution_order") EXCEPT
                       !.start_given = arg.given, !.start_nodes = arg.ids]
              ELSE [NoResult EXCEPT !.op = "generate_execution_order",
                       !.steps = generate_execution_order(
                                     nodes, edges, arg.given, arg.ids),
                       !.start_given = arg.given, !.start_nodes = arg.ids]
    /\ UNCHANGED <<nodes, edges, validation_errors, other_state>>

Next ==
    \/ ValidateDagConfig
    \/ CheckAcyclic
    \/ GetTopologicalOrder
    \/ GetDagStatistics

NextExec ==
    GenerateExecutionOrder

\* The status values of a request's nodes: none given to the constructor
\* keeps the field's default "pending"; null, the empty string and any other
\* string are accepted as they are.
Statuses ==
    {None, "", "pending", "completed", "unknown"}

\* DAGHandler.__init__ and a request whose nodes carry statuses and that has
\* no edges.
InitStatus ==
    /\ \E s \in IdLists, st \in [1..MaxNodes -> Statuses] :
           nodes = [i \in 1..Len(s) |->
                       [DAGNode(s[i]) EXCEPT !.status = st[i]]]
    /\ edges = <<>>
    /\ validation_errors = <<>>
    /\ result = NoResult
    /\ OtherStateAtStart

NextStatus ==
    GetDagStatistics

\* Longest edge list drawn for optimize_dag_layout.
MaxLayoutEdges == 3

\* The layout_type arguments a caller passes: the three names and two that
\* are none of them.
LayoutTypes ==
    {"hierarchical", "circular", "force", "grid", "Hierarchical"}

\* The position a request gives to its i-th node, when it gives one.
GivenPosition(i) ==
    Position(7 * i, 0 - 7 * i)

\* The points random.uniform draws for the nodes, the i-th for the i-th node:
\* one point for all of them, or a point of its own for each.
Draws ==
    {[i \in 1..MaxNodes |-> Position(0, 0)],
     [i \in 1..MaxNodes |-> Position(100 * i - 300, 200 - 100 * i)]}

\* DAGHandler.__init__ and a request with pairwise different node ids, some
\* of the nodes with a position, and edges without labels.
InitLayout ==
    /\ \E s \in {t \in IdLists : \A i, j \in 1..Len(t) : t[i] = t[j] => i = j} :
           \E given \in SUBSET (1..Len(s)) :
               nodes = [i \in 1..Len(s) |->
                           IF i \in given
                           THEN [DAGNode(s[i]) EXCEPT
                                    !.position = GivenPosition(i)]
                           ELSE DAGNode(s[i])]
    /\ edges \in SeqsUpTo(PlainEdges, MaxLayoutEdges)
    /\ validation_errors = <<>>
    /\ result = NoResult
    /\ OtherStateAtStart

\* optimize_dag_layout(dag_element, layout_type): the positions are written
\* into the nodes of dag_element and dag_element itself is returned.
OptimizeDagLayout ==
    /\ result.op = "none"
    /\ \E layout_type \in LayoutTypes, draw \in Draws :
          LET r == optimize_dag_layout(nodes, edges, layout_type, draw)
          IN  /\ nodes' = r.nodes
              /\ result' =
                     IF r.raised
                     THEN [Raised("optimize_dag_layout") EXCEPT
                              !.layout_type = layout_type]
                     ELSE [NoResult EXCEPT !.op = "optimize_dag_layout",
                              !.layout_type = layout_type,
                              !.returned_input = TRUE]
    /\ UNCHANGED <<edges, validation_errors, other_state>>

NextLayout ==
    OptimizeDagLayout

\* Longest node name drawn, in characters.
MaxNameLen == 2

\* Longest node list drawn for the escaping of names.
MaxNamedNodes == 2

\* The characters of the names: the special ones and one that is not.
NameChars ==
    {special_chars[k] : k \in 1..Len(special_chars)} \cup {"n"}

\* DAGHandler.__init__ and a request whose nodes have names of up to
\* MaxNameLen characters, and no edges.
InitEscape ==
    /\ \E names \in SeqsUpTo(SeqsUpTo(NameChars, MaxNameLen), MaxNamedNodes) :
           nodes = [i \in 1..Len(names) |->
                       [DAGNode(IdNames[i]) EXCEPT !.name = names[i]]]
    /\ edges = <<>>
    /\ validation_errors = <<>>
    /\ result = NoResult
    /\ OtherStateAtStart

\* "node_content = self._escape_mermaid_text(node.name)" for every node, as
\* convert_to_mermaid does: result.text is the list of the escaped names.
EscapeMermaidText ==
    /\ result.op = "none"
    /\ result' = [NoResult EXCEPT !.op = "escape_mermaid_text",
                     !.text = [i \in 1..Len(nodes) |->
                                  escape_mermaid_text(nodes[i].name)]]
    /\ UNCHANGED <<nodes, edges, validation_errors, other_state>>

NextEscape ==
    EscapeMermaidText

\* Longest node list and edge list drawn for convert_to_mermaid from the
\* varied nodes and edges.
MaxMermaidNodes == 2

MaxMermaidEdges == 2

\* Longest node list and edge list drawn for convert_to_mermaid from one
\* node and one edge repeated.
MaxManyNodes == 12

MaxManyEdges == 17

\* What the nodes of a request carry: every kind of status under a plain
\* name, and under the default status names with a special character or a
\* line break and descriptions that are empty or not.
MermaidNodeFields ==
    {[name |-> <<"n">>, status |-> st, description |-> None] :
        st \in {None, "", "completed", "failed", "running", "pending",
                "skipped"}}
    \cup {[name |-> <<"n", "\n", "n">>, status |-> "pending",
           description |-> None],
          [name |-> <<"n">>, status |-> "pending", description |-> ""],
          [name |-> <<"[", "n">>, status |-> "completed",
           description |-> "D"]}

\* The edges of a request: with a label, with an empty one, with none.
MermaidEdges ==
    {DAGEdge("a", "b", None), DAGEdge("a", "b", ""), DAGEdge("b", "a", "x"),
     DAGEdge("a", "zz", None)}

\* DAGHandler.__init__ and a request for convert_to_mermaid: a short one with
\* varied nodes and edges, or a long one of one node and one edge repeated.
InitMermaid ==
    /\ \/ /\ \E fs \in SeqsUpTo(MermaidNodeFields, MaxMermaidNodes) :
                 nodes = [i \in 1..Len(fs) |->
                             [DAGNode(IdNames[i]) EXCEPT
                                 !.name = fs[i].name,
                                 !.status = fs[i].status,
                                 !.description = fs[i].description]]
          /\ edges \in SeqsUpTo(MermaidEdges, MaxMermaidEdges)
       \/ /\ \E n \in 0..MaxManyNodes :
                 nodes = [i \in 1..n |-> [DAGNode("a") EXCEPT !.name = <<"n">>]]
          /\ \E m \in 0..MaxManyEdges :
                 edges = [k \in 1..m |-> DAGEdge("a", "a", None)]
    /\ validation_errors = <<>>
    /\ result = NoResult
    /\ OtherStateAtStart

\* convert_to_mermaid(dag_element): result.text is the returned text.
ConvertToMermaid ==
    /\ result.op = "none"
    /\ result' = [NoResult EXCEPT !.op = "convert_to_mermaid",
                     !.text = convert_to_mermaid(nodes, edges)]
    /\ UNCHANGED <<nodes, edges, validation_errors, other_state>>

NextMermaid ==
    ConvertToMermaid

\* Longest node list and edge list of the requests that share the handler.
MaxSharedNodes == 2

MaxSharedEdges == 1

\* The graphs of the requests that share the handler.
SharedRequests ==
    {[nodes |-> [i \in 1..Len(s) |-> DAGNode(s[i])], edges |-> es] :
        s \in {t \in IdLists : Len(t) <= MaxSharedNodes},
        es \in SeqsUpTo(PlainEdges, MaxSharedEdges)}

\* "dag_handler = DAGHandler()" at module level, and the first request.
InitShared ==
    /\ \E r \in SharedRequests : nodes = r.nodes /\ edges = r.edges
    /\ validation_errors = <<>>
    /\ result = NoResult
    /\ OtherStateAtStart

\* The call has returned and the next request brings its own graph to the
\* same handler.
NextRequest ==
    /\ result.op # "none"
    /\ \E r \in SharedRequests : nodes' = r.nodes /\ edges' = r.edges
    /\ result' = NoResult
    /\ UNCHANGED <<validation_errors, other_state>>

NextShared ==
    \/ ValidateDagConfig
    \/ NextRequest

\* Longest node list and edge list of a request on which one call follows
\* another.
MaxFrameNodes == 3

MaxFrameEdges == 2

\* DAGHandler.__init__ and a request whose nodes all have a position or all
\* have none.
InitFrame ==
    /\ \E s \in {t \in IdLists : Len(t) <= MaxFrameNodes}, given \in BOOLEAN :
           nodes = [i \in 1..Len(s) |->
                       [DAGNode(s[i]) EXCEPT
                           !.name = <<"n">>,
                           !.position = IF given THEN GivenPosition(i)
                                        ELSE <<>>]]
    /\ edges \in SeqsUpTo(PlainEdges, MaxFrameEdges)
    /\ validation_errors = <<>>
    /\ result = NoResult
    /\ OtherStateAtStart

\* The call has returned and the caller goes on with the same dag_element.
CallReturns ==
    /\ result.op # "none"
    /\ result' = NoResult
    /\ UNCHANGED <<nodes, edges, validation_errors, other_state>>

NextFrame ==
    \/ ValidateDagConfig
    \/ GetTopologicalOrder
    \/ GetDagStatistics
    \/ GenerateExecutionOrder
    \/ ConvertToMermaid
    \/ CallReturns

\* Longest edge list of the graphs whose Kahn loops are run step by step.
MaxKahnEdges == 3

\* DAGHandler.__init__ and a request with pairwise different node ids.
InitKahn ==
    /\ \E s \in {t \in IdLists : \A i, j \in 1..Len(t) : t[i] = t[j] => i = j} :
           nodes = [i \in 1..Len(s) |-> DAGNode(s[i])]
    /\ edges \in SeqsUpTo(PlainEdges, MaxKahnEdges)
    /\ validation_errors = <<>>
    /\ result = NoResult
    /\ OtherStateAtStart

\* _check_acyclic up to its loop: the tables are built and the ids of
\* in-degree 0 are queued in the dict's order; a KeyError ends the call.
\* processed is the list of the values current has taken, processed_count
\* its length.
CheckAcyclicBegins ==
    /\ result.op = "none"
    /\ kahn.pc = "idle"
    /\ IF RaisesKeyError(nodes, edges)
       THEN /\ result' = Raised("check_acyclic")
            /\ UNCHANGED kahn
       ELSE LET indeg == in_degree(nodes, edges)
            IN  /\ kahn' = [NoKahn EXCEPT
                               !.fn = "check_acyclic", !.pc = "loop",
                               !.in_degree = indeg,
                               !.queue = SelectSeq(KeyOrder(nodes),
                                                   LAMBDA id : indeg[id] = 0)]
                /\ UNCHANGED result
    /\ UNCHANGED <<nodes, edges, validation_errors, config, base_dir,
                   temp_dir, cleanup_tasks, now, linesep>>

\* One iteration of "while queue:" in _check_acyclic.
CheckAcyclicIterates ==
    /\ kahn.fn = "check_acyclic"
    /\ kahn.pc = "loop"
    /\ kahn.queue # <<>>
    /\ LET current == Head(kahn.queue)
           r == AcyclicRelease(adjacency(nodes, edges)[current],
                               kahn.in_degree, Tail(kahn.queue))
       IN  kahn' = [kahn EXCEPT !.in_degree = r.in_degree,
                                !.queue = r.queue,
                                !.processed = Append(@, current)]
    /\ UNCHANGED <<nodes, edges, validation_errors, result, config, base_dir,
                   temp_dir, cleanup_tasks, now, linesep>>

\* The queue is empty: "return processed_count == len(nodes)".
CheckAcyclicReturns ==
    /\ kahn.fn = "check_acyclic"
    /\ kahn.pc = "loop"
    /\ kahn.queue = <<>>
    /\ kahn' = [kahn EXCEPT !.pc = "done"]
    /\ result' = [NoResult EXCEPT !.op = "check_acyclic",
                     !.ok = (Len(kahn.processed) = Len(nodes))]
    /\ UNCHANGED <<nodes, edges, validation_errors, config, base_dir,
                   temp_dir, cleanup_tasks, now, linesep>>

\* get_topological_order up to its loop: the tables are built and the nodes
\* of in-degree 0 are queued in node order; a KeyError ends the call.
\* The queue of nodes (node_queue) and topo_order hold references (indices)
\* into dag_element.nodes.
TopologicalOrderBegins ==
    /\ result.op = "none"
    /\ kahn.pc = "idle"
    /\ IF RaisesKeyError(nodes, edges)
       THEN /\ result' = Raised("get_topological_order")
            /\ UNCHANGED kahn
       ELSE LET indeg == in_degree(nodes, edges)
            IN  /\ kahn' = [NoKahn EXCEPT
                               !.fn = "get_topological_order", !.pc = "loop",
                               !.in_degree = indeg,
                               !.node_queue = TopoSources(nodes, indeg)]
                /\ UNCHANGED result
    /\ UNCHANGED <<nodes, edges, validation_errors, config, base_dir,
                   temp_dir, cleanup_tasks, now, linesep>>

\* One iteration of "while queue:" in get_topological_order.
TopologicalOrderIterates ==
    /\ kahn.fn = "get_topological_order"
    /\ kahn.pc = "loop"
    /\ kahn.node_queue # <<>>
    /\ LET current == Head(kahn.node_queue)
           r == TopoRelease(nodes, adjacency(nodes, edges)[nodes[current].id],
                            kahn.in_degree, Tail(kahn.node_queue))
       IN  kahn' = [kahn EXCEPT !.in_degree = r.in_degree,
                                !.node_queue = r.queue,
                                !.topo_order = Append(@, current)]
    /\ UNCHANGED <<nodes, edges, validation_errors, result, config, base_dir,
                   temp_dir, cleanup_tasks, now, linesep>>

\* The queue is empty: "return topo_order".
TopologicalOrderReturns ==
    /\ kahn.fn = "get_topological_order"
    /\ kahn.pc = "loop"
    /\ kahn.node_queue = <<>>
    /\ kahn' = [kahn EXCEPT !.pc = "done"]
    /\ result' = [NoResult EXCEPT !.op = "get_topological_order",
                     !.order = kahn.topo_order]
    /\ UNCHANGED <<nodes, edges, validation_errors, config, base_dir,
                   temp_dir, cleanup_tasks, now, linesep>>

\* A step of a loop that has begun.
KahnLoopStep ==
    \/ CheckAcyclicIterates
    \/ CheckAcyclicReturns
    \/ TopologicalOrderIterates
    \/ TopologicalOrderReturns

NextKahn ==
    \/ CheckAcyclicBegins
    \/ TopologicalOrderBegins
    \/ KahnLoopStep

\* The names of the files saved, read and deleted.
FileNames ==
    {"r.md", "s.md"}

\* The contents saved: with and without line breaks, with a carriage return
\* before a line break and alone, and one that utf-8 cannot encode.
FileContents ==
    {<<"x">>, <<"x", "\n", "y">>, <<"x", "\r", "\n", "y">>, <<"\r">>,
     <<LoneSurrogate>>}

\* FileManager.__init__ with both directories empty, on a platform whose
\* line separator is "\n" or "\r\n".
InitFiles ==
    /\ nodes = <<>>
    /\ edges = <<>>
    /\ validation_errors = <<>>
    /\ result = NoResult
    /\ kahn = NoKahn
    /\ config = NoConfig
    /\ base_dir = EmptyDir
    /\ temp_dir = EmptyDir
    /\ cleanup_tasks = <<>>
    /\ now = 0
    /\ linesep \in {<<"\n">>, <<"\r", "\n">>}

\* save_file(filename, content, temp)
SaveFile ==
    /\ \E filename \in FileNames, content \in FileContents, temp \in BOOLEAN :
          LET r == save_file(IF temp THEN temp_dir ELSE base_dir, filename,
                             content, linesep, now)
          IN  /\ base_dir' = IF temp THEN base_dir ELSE r.dir
              /\ temp_dir' = IF temp THEN r.dir ELSE temp_dir
              /\ result' = [NoResult EXCEPT !.op = "save_file",
                               !.raised = r.raised, !.filename = filename,
                               !.content = content, !.temp = temp]
    /\ UNCHANGED <<nodes, edges, validation_errors, kahn, config,
                   cleanup_tasks, now, linesep>>

\* read_file(filename)
ReadFile ==
    /\ \E filename \in FileNames :
          LET r == read_file(base_dir, temp_dir, filename)
          IN  result' = [NoResult EXCEPT !.op = "read_file",
                            !.raised = r.raised, !.filename = filename,
                            !.text = r.content]
    /\ UNCHANGED <<nodes, edges, validation_errors, kahn, config, base_dir,
                   temp_dir, cleanup_tasks, now, linesep>>

\* file_exists(filename)
FileExists ==
    /\ \E filename \in FileNames :
          result' = [NoResult EXCEPT !.op = "file_exists",
                        !.filename = filename,
                        !.ok = file_exists(base_dir, temp_dir, filename)]
    /\ UNCHANGED <<nodes, edges, validation_errors, kahn, config, base_dir,
                   temp_dir, cleanup_tasks, now, linesep>>

\* delete_file(filename)
DeleteFile ==
    /\ \E filename \in FileNames :
          LET r == delete_file(base_dir, temp_dir, filename)
          IN  /\ base_dir' = r.base
              /\ temp_dir' = r.temp
              /\ result' = [NoResult EXCEPT !.op = "delete_file",
                               !.filename = filename, !.ok = r.ok]
    /\ UNCHANGED <<nodes, edges, validation_errors, kahn, config,
                   cleanup_tasks, now, linesep>>

NextFiles ==
    \/ SaveFile
    \/ ReadFile
    \/ FileExists
    \/ DeleteFile

\* Hours a report is kept: "ttl_hours=24" in generate_report.
TtlHours == 24

\* Hours a temp file is kept: the default max_age_hours of
\* cleanup_temp_files.
MaxAgeHours == 24

\* Hours that pass in one step of the clock, and the hour at which the clock
\* of the model stops.
TickHours == 12

MaxClock == 36

\* The names /generate gives its files: each has a timestamp and a fresh
\* report_id, so no name is given twice.
ReportNames ==
    {"report_1.md", "report_2.md"}

\* The texts report_generator returns.
ReportContents ==
    {<<"x">>, <<LoneSurrogate>>}

\* The service has started: FileManager.__init__, with no file or one file
\* left in the temp directory.
InitService ==
    /\ nodes = <<>>
    /\ edges = <<>>
    /\ validation_errors = <<>>
    /\ result = NoResult
    /\ kahn = NoKahn
    /\ config = NoConfig
    /\ base_dir = EmptyDir
    /\ temp_dir \in {EmptyDir,
                     Put(EmptyDir, "t.md", [bytes |-> <<"x">>, mtime |-> 0])}
    /\ cleanup_tasks = <<>>
    /\ now = 0
    /\ linesep = <<"\n">>

\* POST /generate: the report is generated (or the answer is 400), saved in
\* the main directory under a fresh name (or the answer is 500), and
\* schedule_cleanup runs as the background task of the answer.
GenerateReport ==
    /\ \E filename \in ReportNames \ DOMAIN base_dir,
          markdown_content \in ReportContents, generated \in BOOLEAN :
          LET r == save_file(base_dir, filename, markdown_content, linesep,
                             now)
          IN  IF ~generated
              THEN /\ result' = [Raised("generate_report") EXCEPT
                                    !.status_code = 400]
                   /\ UNCHANGED <<base_dir, cleanup_tasks>>
              ELSE IF r.raised
              THEN /\ base_dir' = r.dir
                   /\ result' = [Raised("generate_report") EXCEPT
                                    !.status_code = 500,
                                    !.filename = filename]
                   /\ UNCHANGED cleanup_tasks
              ELSE /\ base_dir' = r.dir
                   /\ cleanup_tasks' =
                          schedule_cleanup(cleanup_tasks,
                                           Path("base_dir", filename), now,
                                           TtlHours)
                   /\ result' = [NoResult EXCEPT !.op = "generate_report",
                                    !.status_code = 200,
                                    !.filename = filename,
                                    !.content = markdown_content]
    /\ UNCHANGED <<nodes, edges, validation_errors, kahn, config, temp_dir,
                   now, linesep>>

\* GET /download/{filename}: 404 when get_file_path returns None.
DownloadReport ==
    /\ \E filename \in ReportNames \cup {"t.md"} :
          result' =
              IF get_file_path(base_dir, temp_dir, filename) = NoPath
              THEN [Raised("download_report") EXCEPT
                       !.status_code = 404, !.filename = filename]
              ELSE [NoResult EXCEPT !.op = "download_report",
                       !.status_code = 200, !.filename = filename]
    /\ UNCHANGED <<nodes, edges, validation_errors, kahn, config, base_dir,
                   temp_dir, cleanup_tasks, now, linesep>>

\* DELETE /cleanup: cleanup_temp_files().
CleanupFiles ==
    /\ LET r == cleanup_temp_files(temp_dir, now, MaxAgeHours)
       IN  /\ temp_dir' = r.temp
           /\ result' = [NoResult EXCEPT !.op = "cleanup_files",
                            !.status_code = 200,
                            !.ok = (r.count > 0)]
    /\ UNCHANGED <<nodes, edges, validation_errors, kahn, config, base_dir,
                   cleanup_tasks, now, linesep>>

\* Time passes.
Tick ==
    /\ now + TickHours <= MaxClock
    /\ now' = now + TickHours
    /\ UNCHANGED <<nodes, edges, validation_errors, result, kahn, config,
                   base_dir, temp_dir, cleanup_tasks, linesep>>

\* The endpoints that touch the files, and the clock. No endpoint, startup
\* handler or background task calls process_cleanup_tasks.
NextService ==
    \/ GenerateReport
    \/ DownloadReport
    \/ CleanupFiles
    \/ Tick

\* Longest element list of a configuration.
MaxElements == 2

\* The elements of the configurations sent to /validate: a text, charts that
\* are complete, without title and without data, and DAGs that pass
\* validate_dag_config, have a cycle, a duplicate id, an edge to an unknown
\* node, or no node.
ValidateElements ==
    {Element("text", None, None, <<>>, <<>>),
     Element("chart", "T", "data", <<>>, <<>>),
     Element("chart", " ", "data", <<>>, <<>>),
     Element("chart", "T", None, <<>>, <<>>),
     Element("dag", "T", None, <<DAGNode("a"), DAGNode("b")>>,
             <<DAGEdge("a", "b", None)>>),
     Element("dag", "T", None, <<DAGNode("a"), DAGNode("b")>>,
             <<DAGEdge("a", "b", None), DAGEdge("b", "a", None)>>),
     Element("dag", "T", None, <<DAGNode("a"), DAGNode("a")>>, <<>>),
     Element("dag", "T", None, <<DAGNode("a")>>,
             <<DAGEdge("a", "c", None)>>),
     Element("dag", "T", None, <<>>, <<>>)}

\* The service has started and a configuration is sent to /validate.
InitValidate ==
    /\ nodes = <<>>
    /\ edges = <<>>
    /\ validation_errors = <<>>
    /\ result = NoResult
    /\ kahn = NoKahn
    /\ \E title \in {"", " ", "T"},
          elements \in SeqsUpTo(ValidateElements, MaxElements) :
           config = [title |-> title, elements |-> elements]
    /\ base_dir = EmptyDir
    /\ temp_dir = EmptyDir
    /\ cleanup_tasks = <<>>
    /\ now = 0
    /\ linesep = <<"\n">>

\* POST /validate
ValidateConfig ==
    /\ result.op = "none"
    /\ LET r == validate_config(config)
       IN  /\ result' = [NoResult EXCEPT !.op = "validate_config",
                            !.status_code = r.status_code,
                            !.valid = r.valid, !.errors = r.errors]
           /\ validation_errors' =
                  IF r.dag_loop
                  THEN ErrorsAfterDagLoop(config.elements, validation_errors)
                  ELSE validation_errors
    /\ UNCHANGED <<nodes, edges, kahn, config, base_dir, temp_dir,
                   cleanup_tasks, now, linesep>>

NextValidate ==
    ValidateConfig

\* Calls on a request whose edges have no labels.
Spec == Init /\ [][Next]_vars

\* generate_execution_order on a request whose edges may have labels.
SpecExec == InitExec /\ [][NextExec]_vars

\* get_dag_statistics on a request whose nodes carry statuses.
SpecStatus == InitStatus /\ [][NextStatus]_vars

\* optimize_dag_layout on a request whose nodes may have positions.
SpecLayout == InitLayout /\ [][NextLayout]_vars

\* _escape_mermaid_text on the names of a request's nodes.
SpecEscape == InitEscape /\ [][NextEscape]_vars

\* convert_to_mermaid on short varied requests and on long uniform ones.
SpecMermaid == InitMermaid /\ [][NextMermaid]_vars

\* validate_dag_config for one request after another on the shared handler.
SpecShared == InitShared /\ [][NextShared]_vars

\* One call after another on the graph of one request.
SpecFrame == InitFrame /\ [][NextFrame]_vars

\* The Kahn loops one iteration at a time; a loop that has begun goes on
\* until its queue is empty and the method returns.
SpecKahn == InitKahn /\ [][NextKahn]_vars /\ WF_vars(KahnLoopStep)

\* Calls of FileManager, one after another.
SpecFiles == InitFiles /\ [][NextFiles]_vars

\* The running service: requests arrive or not, and time passes.
SpecService == InitService /\ [][NextService]_vars /\ WF_vars(Tick)

\* POST /validate on a configuration.
SpecValidate == InitValidate /\ [][NextValidate]_vars

\* ------------------------------------------------------- graph vocabulary

\* Node ids are pairwise distinct.
DistinctIds(ns) ==
    \A i \in 1..Len(ns) : \A j \in 1..Len(ns) : i # j => ns[i].id # ns[j].id

\* Every edge's source and target is the id of a node.
KnownEndpoints(ns, es) ==
    \A k \in 1..Len(es) :
        es[k].from_node \in IdSet(ns) /\ es[k].to_node \in IdSet(ns)

StructurallyValid(ns, es) ==
    DistinctIds(ns) /\ KnownEndpoints(ns, es)

EdgeFromTo(es, u, v) ==
    \E k \in 1..Len(es) : es[k].from_node = u /\ es[k].to_node = v

\* A directed path of 1..n edges leads from u to v.
RECURSIVE PathWithin(_, _, _, _)
PathWithin(es, u, v, n) ==
    /\ n > 0
    /\ \/ EdgeFromTo(es, u, v)
       \/ \E w \in Ids : EdgeFromTo(es, u, w) /\ PathWithin(es, w, v, n - 1)

\* Some directed path returns to its first node (a self-loop included).
HasCycle(es) ==
    \E u \in Ids : PathWithin(es, u, u, Cardinality(Ids))

\* The node (index) with the id, in a list of distinct ids.
NodeOfId(ns, id) ==
    CHOOSE i \in 1..Len(ns) : ns[i].id = id

\* Where the node stands in the order; 0 when it is left out.
PositionIn(order, n) ==
    IF \E k \in 1..Len(order) : order[k] = n
    THEN CHOOSE k \in 1..Len(order) :
             order[k] = n /\ \A j \in 1..(k - 1) : order[j] # n
    ELSE 0

Occurrences(order, n) ==
    Cardinality({k \in 1..Len(order) : order[k] = n})

\* The edges (indices) into the node with the id.
EdgesInto(es, id) ==
    {k \in 1..Len(es) : es[k].to_node = id}

Returned(op) ==
    result.op = op /\ ~result.raised

\* ------------------------------------------------------------------ claims

\* C1: for every acyclic graph with pairwise-distinct node ids and edges whose
\* endpoints are known nodes, get_topological_order returns (raises nothing)
\* a list in which every node occurs exactly once and in which, for every
\* edge a->b, a stands before b.
C1_TopologicalOrderOfAcyclicGraph ==
    (/\ result.op = "get_topological_order"
     /\ StructurallyValid(nodes, edges)
     /\ ~HasCycle(edges))
    => /\ ~result.raised
       /\ Len(result.order) = Len(nodes)
       /\ \A n \in 1..Len(nodes) : Occurrences(result.order, n) = 1
       /\ \A k \in 1..Len(edges) :
              PositionIn(result.order, NodeOfId(nodes, edges[k].from_node))
                  < PositionIn(result.order, NodeOfId(nodes, edges[k].to_node))

\* C1 witness: three nodes a, b, c with an edge c->b, ordered a, c, b.
C1_Witness ==
    /\ Returned("get_topological_order")
    /\ StructurallyValid(nodes, edges)
    /\ ~HasCycle(edges)
    /\ Len(nodes) = 3
    /\ EdgeFromTo(edges, "c", "b")
    /\ result.order = <<1, 3, 2>>

\* C2: for every structurally valid graph with a directed cycle (a self-loop
\* included) _check_acyclic returns False and get_topological_order returns
\* strictly fewer nodes than the graph has; for every structurally valid graph
\* the order's length equals the node count if and only if the graph is
\* acyclic.
C2_CycleDetected ==
    /\ (/\ result.op = "check_acyclic"
        /\ StructurallyValid(nodes, edges)
        /\ HasCycle(edges))
       => ~result.raised /\ ~result.ok
    /\ (result.op = "get_topological_order" /\ StructurallyValid(nodes, edges))
       => /\ ~result.raised
          /\ HasCycle(edges) => Len(result.order) < Len(nodes)
          /\ Len(result.order) = Len(nodes) <=> ~HasCycle(edges)

\* C2 witness: a graph with a cycle and a node outside it: the order is
\* neither empty nor complete.
C2_Witness ==
    /\ Returned("get_topological_order")
    /\ StructurallyValid(nodes, edges)
    /\ HasCycle(edges)
    /\ 0 < Len(result.order)
    /\ Len(result.order) < Len(nodes)

\* C3: for every non-empty graph with pairwise-distinct node ids and edges
\* whose endpoints are all known nodes, validate_dag_config returns True if
\* and only if the graph has no directed cycle, and when it returns False the
\* recorded error is the cycle error.
C3_ValidIffAcyclic ==
    (/\ result.op = "validate_dag_config"
     /\ nodes # <<>>
     /\ StructurallyValid(nodes, edges))
    => /\ result.ok <=> ~HasCycle(edges)
       /\ result.ok => validation_errors = <<>>
       /\ ~result.ok => validation_errors = <<Error("cycle", "")>>

\* C3 witness: nodes a, b with edges a->b and b->a fail validation.
C3_Witness ==
    /\ result.op = "validate_dag_config"
    /\ Len(nodes) = 2
    /\ StructurallyValid(nodes, edges)
    /\ Len(edges) = 2
    /\ EdgeFromTo(edges, "a", "b")
    /\ EdgeFromTo(edges, "b", "a")
    /\ ~result.ok

\* C4: whenever two nodes share an id or an edge names a source or target that
\* is no node id, validate_dag_config returns False with one error that is not
\* the cycle error, and _check_acyclic is not called.  With a node list that
\* is not empty the error is the duplicate-id error or an unknown-endpoint
\* error (an empty node list is reported as such, before the edges are read).
C4_StructuralErrorBeforeCycleCheck ==
    (/\ result.op = "validate_dag_config"
     /\ ~StructurallyValid(nodes, edges))
    => /\ ~result.ok
       /\ ~result.cycle_checked
       /\ Len(validation_errors) = 1
       /\ validation_errors[1].kind # "cycle"
       /\ nodes # <<>> =>
              validation_errors[1].kind
                  \in {"duplicate", "unknown_from", "unknown_to"}
       /\ ~DistinctIds(nodes) => validation_errors[1].kind = "duplicate"

\* C4 witness: a duplicated id in a graph that also has a cycle.
C4_Witness ==
    /\ result.op = "validate_dag_config"
    /\ ~DistinctIds(nodes)
    /\ KnownEndpoints(nodes, edges)
    /\ HasCycle(edges)
    /\ ~result.ok
    /\ ~result.cycle_checked

\* The node is emitted and has no incoming edge.
IsSource(n) ==
    EdgesInto(edges, nodes[n].id) = {}

\* The predecessor of the node that the order emits last.
Releaser(order, n) ==
    LET preds == {NodeOfId(nodes, edges[k].from_node) :
                     k \in EdgesInto(edges, nodes[n].id)}
    IN  CHOOSE p \in preds :
            \A q \in preds : PositionIn(order, q) <= PositionIn(order, p)

\* The last edge, in edge order, from the node's releaser to the node: the
\* edge whose processing brings the node's in-degree to zero.
ReleasingEdge(order, n) ==
    MaxOf({k \in EdgesInto(edges, nodes[n].id) :
              edges[k].from_node = nodes[Releaser(order, n)].id})

\* Both nodes are initial sources, or both are released by processing the
\* same node.
ReadyTogether(order, u, v) ==
    \/ IsSource(u) /\ IsSource(v)
    \/ /\ ~IsSource(u)
       /\ ~IsSource(v)
       /\ Releaser(order, u) = Releaser(order, v)

EmittedPairs(order) ==
    {p \in (1..Len(nodes)) \X (1..Len(nodes)) :
        /\ p[1] # p[2]
        /\ PositionIn(order, p[1]) > 0
        /\ PositionIn(order, p[2]) > 0}

\* C5 as stated: nodes that are ready at the same time (the initial sources,
\* or the successors released by processing one node) are placed in the
\* order of the input node list, whatever the order of the edge list.
C5_TieBreakByNodeList ==
    (Returned("get_topological_order") /\ StructurallyValid(nodes, edges))
    => \A p \in EmittedPairs(result.order) :
           (ReadyTogether(result.order, p[1], p[2]) /\ p[1] < p[2])
           => PositionIn(result.order, p[1]) < PositionIn(result.order, p[2])

\* C5 amended: in a graph with distinct node ids and known endpoints, the
\* initial sources are placed in the order of the input node list, and the
\* successors released by processing one node are placed in the order, in
\* the edge list, of the edges that release them.
C5_TieBreakByQueueOrder ==
    (Returned("get_topological_order") /\ StructurallyValid(nodes, edges))
    => \A p \in EmittedPairs(result.order) :
           /\ (IsSource(p[1]) /\ IsSource(p[2]) /\ p[1] < p[2])
              => PositionIn(result.order, p[1]) < PositionIn(result.order, p[2])
           /\ (/\ ~IsSource(p[1])
               /\ ~IsSource(p[2])
               /\ Releaser(result.order, p[1]) = Releaser(result.order, p[2])
               /\ ReleasingEdge(result.order, p[1])
                      < ReleasingEdge(result.order, p[2]))
              => PositionIn(result.order, p[1]) < PositionIn(result.order, p[2])

\* C5 witness: nodes a, b, c with the edge a->c before the edge a->b: c is
\* released before b and placed before it.
C5_Witness ==
    /\ Returned("get_topological_order")
    /\ StructurallyValid(nodes, edges)
    /\ Len(nodes) = 3
    /\ ~IsSource(2)
    /\ ~IsSource(3)
    /\ PositionIn(result.order, 2) > 0
    /\ PositionIn(result.order, 3) > 0
    /\ Releaser(result.order, 2) = Releaser(result.order, 3)
    /\ ReleasingEdge(result.order, 3) < ReleasingEdge(result.order, 2)
    /\ PositionIn(result.order, 3) < PositionIn(result.order, 2)

\* C6: for every graph on which it returns, generate_execution_order gives one
\* step per node of get_topological_order's result, in that order, numbered
\* 1, 2, ..., k with k the length of that result.
C6_StepsFollowTopologicalOrder ==
    Returned("generate_execution_order")
    => LET topo_order == get_topological_order(nodes, edges)
       IN  /\ Len(result.steps) = Len(topo_order)
           /\ \A i \in 1..Len(result.steps) :
                  /\ result.steps[i].step = i
                  /\ result.steps[i].node_id = nodes[topo_order[i]].id
                  /\ result.steps[i].node_name = nodes[topo_order[i]].name

\* C6 witness: three steps, the first of which is not the first input node.
C6_Witness ==
    /\ Returned("generate_execution_order")
    /\ Len(result.steps) = 3
    /\ result.steps[1].node_id # nodes[1].id
    /\ result.steps[3].step = 3

\* An edge carries a label when its label is neither None nor empty.
CarriesLabel(e) ==
    e.label # None /\ e.label # ""

\* The j-th smallest element of a set of numbers.
NthOf(S, j) ==
    CHOOSE k \in S : Cardinality({m \in S : m < k}) = j - 1

\* C7: in each step, "dependencies" is exactly the list of the labels of the
\* edges whose target is the step's node and that carry a label, in edge-list
\* order; edges without a label and edges into other nodes contribute nothing.
C7_DependenciesAreIncomingLabels ==
    Returned("generate_execution_order")
    => \A i \in 1..Len(result.steps) :
           LET deps == result.steps[i].dependencies
               into == {k \in EdgesInto(edges, result.steps[i].node_id) :
                           CarriesLabel(edges[k])}
           IN  /\ Len(deps) = Cardinality(into)
               /\ \A j \in 1..Len(deps) : deps[j] = edges[NthOf(into, j)].label

\* C7 witness: two labelled edges into one node; its step lists both labels
\* in edge-list order.
C7_Witness ==
    /\ Returned("generate_execution_order")
    /\ \E i \in 1..Len(result.steps) :
           result.steps[i].dependencies = <<"x", "y">>

\* C8: whatever start_nodes is (omitted, empty, a list of ids, ids that are no
\* nodes), generate_execution_order returns what it returns when start_nodes
\* is omitted: the same nodes in the same order with the same step fields.
C8_StartNodesIgnored ==
    Returned("generate_execution_order")
    => result.steps = generate_execution_order(nodes, edges, FALSE, <<>>)

\* C8 witness: a call with start_nodes naming no node that lists two steps.
C8_Witness ==
    /\ Returned("generate_execution_order")
    /\ result.start_given
    /\ result.start_nodes = <<"zz">>
    /\ Len(result.steps) >= 2

\* What each error says is the case.
ErrorIsTrue(e) ==
    CASE e.kind = "empty" -> nodes = <<>>
      [] e.kind = "duplicate" -> ~DistinctIds(nodes)
      [] e.kind = "unknown_from" ->
             /\ e.node \notin IdSet(nodes)
             /\ \E k \in 1..Len(edges) : edges[k].from_node = e.node
      [] e.kind = "unknown_to" ->
             /\ e.node \notin IdSet(nodes)
             /\ \E k \in 1..Len(edges) : edges[k].to_node = e.node
      [] e.kind = "cycle" -> HasCycle(edges)
      [] OTHER -> FALSE

\* C9 as stated: every failure reported by validate_dag_config has one of
\* exactly three reasons (non-unique ids, an edge referencing an unknown node,
\* a detected cycle), and the empty graph is not reported as an error.
C9_ThreeReasons ==
    result.op = "validate_dag_config"
    => /\ ~result.ok =>
              \A k \in 1..Len(validation_errors) :
                  validation_errors[k].kind
                      \in {"duplicate", "unknown_from", "unknown_to", "cycle"}
       /\ (nodes = <<>> /\ edges = <<>>) =>
              result.ok /\ validation_errors = <<>>

\* C9 amended: every failure reported by validate_dag_config has exactly one
\* of four reasons (an empty node list, non-unique ids, an edge referencing an
\* unknown node, a detected cycle), the reason given is the case, and the
\* empty graph is reported as an error: the empty node list.
C9_FourReasons ==
    result.op = "validate_dag_config"
    => /\ result.ok <=> validation_errors = <<>>
       /\ ~result.ok =>
              /\ Len(validation_errors) = 1
              /\ validation_errors[1].kind
                     \in {"empty", "duplicate", "unknown_from", "unknown_to",
                          "cycle"}
              /\ ErrorIsTrue(validation_errors[1])
       /\ nodes = <<>> =>
              /\ ~result.ok
              /\ validation_errors = <<Error("empty", "")>>

\* C9 witness: the empty graph, reported as an error.
C9_Witness ==
    /\ result.op = "validate_dag_config"
    /\ nodes = <<>>
    /\ edges = <<>>
    /\ ~result.ok
    /\ validation_errors = <<Error("empty", "")>>

\* C10 as stated: get_dag_statistics reports density exactly 0, without
\* raising, for every graph with 0 or 1 nodes and edges whose endpoints are
\* known nodes.
C10_DensityZeroUpToOneNode ==
    (/\ result.op = "get_dag_statistics"
     /\ Len(nodes) <= 1
     /\ KnownEndpoints(nodes, edges))
    => /\ ~result.raised
       /\ result.stats.density.num = 0

\* ------------------------------------------------- claims on the statistics

\* No edge from a node to itself and no two edges with the same endpoints.
SimpleGraph(es) ==
    /\ \A k \in 1..Len(es) : es[k].from_node # es[k].to_node
    /\ \A j, k \in 1..Len(es) :
           (/\ es[j].from_node = es[k].from_node
            /\ es[j].to_node = es[k].to_node) => j = k

\* The edges that leave the node with this id.
EdgesOutOf(es, id) ==
    {k \in 1..Len(es) : es[k].from_node = id}

\* The ids of the nodes at the positions in S, in node-list order.
IdsAt(ns, S) ==
    [j \in 1..Cardinality(S) |-> ns[NthOf(S, j)].id]

\* C11: for every graph with n >= 2 nodes, the density that
\* get_dag_statistics reports is the quotient (number of edges) / (n*(n-1)),
\* and it lies in [0,1] when the graph has no self-loop and no duplicate edge.
C11_DensityOfTwoOrMoreNodes ==
    (Returned("get_dag_statistics") /\ Len(nodes) >= 2)
    => LET d == result.stats.density
           n == Len(nodes)
       IN  /\ d.den > 0
           /\ d.num * (n * (n - 1)) = Len(edges) * d.den
           /\ SimpleGraph(edges) => (0 <= d.num /\ d.num <= d.den)

\* C11 witness: the chain a->b->c, density 2/6.
C11_Witness ==
    /\ Returned("get_dag_statistics")
    /\ node_ids(nodes) = <<"a", "b", "c">>
    /\ edges = <<DAGEdge("a", "b", None), DAGEdge("b", "c", None)>>
    /\ result.stats.density = [num |-> 2, den |-> 6]

\* C12: get_dag_statistics reports as start_nodes the ids of the nodes with
\* no incoming edge and as end_nodes the ids of the nodes with no outgoing
\* edge, each in node-list order; a node with no edge at all is in both.
C12_StartAndEndNodes ==
    Returned("get_dag_statistics")
    => LET sources == {i \in 1..Len(nodes) :
                          EdgesInto(edges, nodes[i].id) = {}}
           sinks == {i \in 1..Len(nodes) :
                        EdgesOutOf(edges, nodes[i].id) = {}}
       IN  /\ result.stats.start_nodes = IdsAt(nodes, sources)
           /\ result.stats.end_nodes = IdsAt(nodes, sinks)
           /\ \A i \in sources \cap sinks :
                  /\ \E j \in DOMAIN result.stats.start_nodes :
                         result.stats.start_nodes[j] = nodes[i].id
                  /\ \E j \in DOMAIN result.stats.end_nodes :
                         result.stats.end_nodes[j] = nodes[i].id

\* C12 witness: the chain a->b->c, with start a and end c.
C12_Witness ==
    /\ Returned("get_dag_statistics")
    /\ node_ids(nodes) = <<"a", "b", "c">>
    /\ edges = <<DAGEdge("a", "b", None), DAGEdge("b", "c", None)>>
    /\ result.stats.start_nodes = <<"a">>
    /\ result.stats.end_nodes = <<"c">>

\* A status that is absent: null or the empty string.
StatusAbsent(node) ==
    node.status \in {None, ""}

\* The sum of the counts of a histogram over the keys in S.
RECURSIVE SumCounts(_, _)
SumCounts(d, S) ==
    IF S = {} THEN 0
    ELSE LET k == CHOOSE x \in S : TRUE
         IN  d[k] + SumCounts(d, S \ {k})

\* C13: status_distribution counts every node exactly once, under its own
\* status, or under "unknown" when its status is absent (null or empty): the
\* count of a key is the number of nodes with that status, plus, for
\* "unknown", the number of nodes without a status; the counts sum to
\* total_nodes and no key has the count 0.
C13_StatusDistribution ==
    Returned("get_dag_statistics")
    => LET dist == result.stats.status_distribution
           absent == {i \in 1..Len(nodes) : StatusAbsent(nodes[i])}
           with(k) == {i \in 1..Len(nodes) :
                          ~StatusAbsent(nodes[i]) /\ nodes[i].status = k}
       IN  /\ \A i \in 1..Len(nodes) :
                  IF StatusAbsent(nodes[i])
                  THEN "unknown" \in DOMAIN dist
                  ELSE nodes[i].status \in DOMAIN dist
           /\ \A k \in DOMAIN dist :
                  /\ dist[k] = Cardinality(with(k))
                                + (IF k = "unknown"
                                   THEN Cardinality(absent) ELSE 0)
                  /\ dist[k] >= 1
           /\ SumCounts(dist, DOMAIN dist) = result.stats.total_nodes
           /\ result.stats.total_nodes = Len(nodes)

\* C13 witness: one node without a status and two completed ones.
C13_Witness ==
    /\ Returned("get_dag_statistics")
    /\ Len(nodes) = 3
    /\ nodes[1].status = None
    /\ nodes[2].status = "completed"
    /\ nodes[3].status = "completed"
    /\ DOMAIN result.stats.status_distribution = {"unknown", "completed"}
    /\ result.stats.status_distribution["unknown"] = 1
    /\ result.stats.status_distribution["completed"] = 2

\* ----------------------------------------------------- claims on the layout

\* The call of optimize_dag_layout with this layout_type has returned.
LayoutReturned(layout_type) ==
    /\ Returned("optimize_dag_layout")
    /\ result.layout_type = layout_type

\* The step is a call of optimize_dag_layout with this layout_type.
LayoutCall(layout_type) ==
    /\ result.op = "none"
    /\ result'.op = "optimize_dag_layout"
    /\ result'.layout_type = layout_type

\* Two nodes that differ at most in their position.
SameButPosition(m, n) ==
    [m EXCEPT !.position = <<>>] = [n EXCEPT !.position = <<>>]

\* The ids of the nodes with no incoming edge.
ZeroInDegree(ns, es) ==
    {id \in IdSet(ns) : EdgesInto(es, id) = {}}

\* The ids reached from the ids in S along at most k edges.
RECURSIVE ReachedWithin(_, _, _)
ReachedWithin(es, S, k) ==
    IF k = 0 THEN S
    ELSE LET R == ReachedWithin(es, S, k - 1)
         IN  R \cup {es[j].to_node : j \in {j \in 1..Len(es) :
                                               es[j].from_node \in R}}

\* A path along the edges leads from a node of in-degree 0 to the id.
ReachableFromSource(ns, es, id) ==
    id \in ReachedWithin(es, ZeroInDegree(ns, es), Len(ns))

\* The number of edges of a shortest path from a node of in-degree 0.
SourceDistance(ns, es, id) ==
    CHOOSE k \in 0..Len(ns) :
        /\ id \in ReachedWithin(es, ZeroInDegree(ns, es), k)
        /\ \A j \in 0..(k - 1) :
               id \notin ReachedWithin(es, ZeroInDegree(ns, es), j)

\* The reachable ids at the same distance as the id.
SameLevel(ns, es, id) ==
    {u \in IdSet(ns) :
        /\ ReachableFromSource(ns, es, u)
        /\ SourceDistance(ns, es, u) = SourceDistance(ns, es, id)}

\* First-discovery order inside a level.  At distance 0 the nodes are
\* discovered in node-list order.  At distance d > 0 a node is discovered
\* through the edges into it from the nodes at distance d - 1: first through
\* the parent discovered first and, for one parent, through its first edge
\* in the edge list.  DiscoveryRank counts from 0.
RECURSIVE DiscoveryKey(_, _, _)
RECURSIVE DiscoveryRank(_, _, _)
DiscoveryKey(ns, es, id) ==
    IF SourceDistance(ns, es, id) = 0
    THEN FirstNodeWithId(ns, id)
    ELSE LET through ==
                 {k \in EdgesInto(es, id) :
                     /\ es[k].from_node \in IdSet(ns)
                     /\ ReachableFromSource(ns, es, es[k].from_node)
                     /\ SourceDistance(ns, es, es[k].from_node)
                            = SourceDistance(ns, es, id) - 1}
             key(k) == DiscoveryRank(ns, es, es[k].from_node) * (Len(es) + 1)
                       + k
         IN  key(CHOOSE k \in through : \A j \in through : key(k) <= key(j))

DiscoveryRank(ns, es, id) ==
    Cardinality({u \in SameLevel(ns, es, id) :
                    DiscoveryKey(ns, es, u) < DiscoveryKey(ns, es, id)})

\* C14: a call of optimize_dag_layout with one of the three layout policies
\* that returns, returns the graph object it was given and changes nothing
\* but position fields: the nodes are the same nodes in the same order with
\* the same id, name, description, status, timestamp and result, and the
\* edge list is the same.
C14_LayoutChangesPositionsOnly ==
    [][\A layout_type \in {"hierarchical", "circular", "force"} :
          (LayoutCall(layout_type) /\ ~result'.raised)
          => /\ result'.returned_input
             /\ edges' = edges
             /\ Len(nodes') = Len(nodes)
             /\ \A i \in 1..Len(nodes) :
                    SameButPosition(nodes[i], nodes'[i])]_vars

\* C14 witness: three nodes and three edges after the circular layout, every
\* node with a position.
C14_Witness ==
    /\ LayoutReturned("circular")
    /\ result.returned_input
    /\ node_ids(nodes) = <<"a", "b", "c">>
    /\ Len(edges) = 3
    /\ \A i \in 1..3 :
           /\ nodes[i].position # <<>>
           /\ SameButPosition(nodes[i], DAGNode(nodes[i].id))

\* C15: a call of optimize_dag_layout with a layout_type other than
\* "hierarchical", "circular" and "force" raises no error and returns the
\* graph it was given with every node, position included, and every edge
\* unchanged.
C15_UnknownLayoutChangesNothing ==
    [][\A layout_type \in LayoutTypes \ {"hierarchical", "circular", "force"} :
          LayoutCall(layout_type)
          => /\ ~result'.raised
             /\ result'.returned_input
             /\ nodes' = nodes
             /\ edges' = edges]_vars

\* C15 witness: layout "grid" has returned on a graph with an edge to an id
\* that is no node, a node with a position and a node without.
C15_Witness ==
    /\ LayoutReturned("grid")
    /\ node_ids(nodes) = <<"a", "b">>
    /\ nodes[1].position = GivenPosition(1)
    /\ nodes[2].position = <<>>
    /\ edges = <<DAGEdge("a", "c", None)>>

\* C16: in a hierarchical layout that returns, a node is given a position
\* if and only if a path leads to it from some node of in-degree 0, and then
\* its y is 100 times the number of edges of a shortest such path; any other
\* node keeps the position it had before the call (none when it had none).
C16_LevelIsDistanceFromSource ==
    [][(LayoutCall("hierarchical") /\ ~result'.raised)
       => \A i \in 1..Len(nodes) :
              IF ReachableFromSource(nodes, edges, nodes[i].id)
              THEN /\ Len(nodes'[i].position) = 2
                   /\ nodes'[i].position[2]
                          = 100 * SourceDistance(nodes, edges, nodes[i].id)
              ELSE nodes'[i].position = nodes[i].position]_vars

\* C16 witness: a at distance 0, b at distance 1 and c, on a self-loop, out
\* of reach, with the position the request gave it.
C16_Witness ==
    /\ LayoutReturned("hierarchical")
    /\ node_ids(nodes) = <<"a", "b", "c">>
    /\ edges = <<DAGEdge("a", "b", None), DAGEdge("c", "c", None)>>
    /\ nodes[1].position[2] = 0
    /\ nodes[2].position[2] = 100
    /\ nodes[3].position = GivenPosition(3)

C18_SingleNodeAtOrigin ==
    (/\ LayoutReturned("hierarchical")
     /\ Len(nodes) = 1
     /\ edges = <<>>)
    => nodes[1].position = Position(0, 0)

\* C18 as amended: the hierarchical layout of a graph of a single node and
\* no edge puts the node on level 0, y = 0, at x = (0 - 1/2) * 150 = -75,
\* whatever position it had.
C18_SingleNodeHalfSpacingLeft ==
    (/\ LayoutReturned("hierarchical")
     /\ Len(nodes) = 1
     /\ edges = <<>>)
    => nodes[1].position = Position(0 - 75, 0)

\* C18 witness: the single node at (-75, 0).
C18_Witness ==
    /\ LayoutReturned("hierarchical")
    /\ node_ids(nodes) = <<"a">>
    /\ edges = <<>>
    /\ nodes[1].position = Position(0 - 75, 0)

\* C19 as stated: the force layout of a graph of no node or exactly one
\* node raises no error and leaves every position as it was.
C19_ForceLeavesSmallGraphs ==
    [][(LayoutCall("force") /\ Len(nodes) <= 1)
       => /\ ~result'.raised
          /\ nodes' = nodes]_vars

\* C19 as amended: the force layout of a graph of no node or exactly one
\* node raises no error; with no node nothing changes; the position of a
\* single node is replaced, whatever it was, by the point drawn at random
\* for it, x in [-300, 300] and y in [-200, 200], which no pass moves.
C19_ForceDrawsSingleNode ==
    [][(LayoutCall("force") /\ Len(nodes) <= 1)
       => /\ ~result'.raised
          /\ Len(nodes') = Len(nodes)
          /\ \A i \in 1..Len(nodes) :
                 /\ SameButPosition(nodes[i], nodes'[i])
                 /\ \E draw \in Draws : nodes'[i].position = draw[i]
                 /\ Len(nodes'[i].position) = 2
                 /\ nodes'[i].position[1] \in -300..300
                 /\ nodes'[i].position[2] \in -200..200]_vars

\* C19 witness: a single node after the force layout, on the point drawn.
C19_Witness ==
    /\ LayoutReturned("force")
    /\ node_ids(nodes) = <<"a">>
    /\ nodes[1].position = Position(0 - 200, 100)

\* ------------------------------------------------- claims on the escaping

\* The text with one backslash put before each special character and every
\* other character copied.
RECURSIVE PrefixedOnce(_)
PrefixedOnce(text) ==
    IF text = <<>> THEN <<>>
    ELSE (IF \E k \in 1..Len(special_chars) : special_chars[k] = Head(text)
          THEN <<"\\", Head(text)>>
          ELSE <<Head(text)>>)
         \o PrefixedOnce(Tail(text))

\* C20 as stated: _escape_mermaid_text returns the name with every
\* occurrence of each of the 16 special characters prefixed by one backslash
\* and every other character copied unchanged, and different names give
\* different escaped texts.
C20_EverySpecialCharPrefixedOnce ==
    Returned("escape_mermaid_text")
    => /\ \A i \in 1..Len(nodes) :
              result.text[i] = PrefixedOnce(nodes[i].name)
       /\ \A i, j \in 1..Len(nodes) :
              nodes[i].name # nodes[j].name => result.text[i] # result.text[j]

\* ------------------------------------------------- claims on the diagram

\* The places of the line breaks of a text.
Breaks(text) ==
    {p \in 1..Len(text) : text[p] = "\n"}

\* The place of the j-th line break; 0 before the text and one past its end
\* after the last line break.
BreakAt(text, j) ==
    IF j = 0 THEN 0
    ELSE IF j > Cardinality(Breaks(text)) THEN Len(text) + 1
    ELSE CHOOSE p \in Breaks(text) :
             Cardinality({q \in Breaks(text) : q < p}) = j - 1

\* The lines of a text: its pieces between the line breaks.
Lines(text) ==
    [j \in 1..(Cardinality(Breaks(text)) + 1) |->
        SubSeq(text, BreakAt(text, j - 1) + 1, BreakAt(text, j) - 1)]

\* No name of the graph has a line break.
NoLineBreaks ==
    \A i \in 1..Len(nodes) :
        \A k \in 1..Len(nodes[i].name) : nodes[i].name[k] # "\n"

\* convert_to_mermaid has returned the text of a graph without line breaks:
\* line i + 1 is the line of node i.
Rendered ==
    Returned("convert_to_mermaid") /\ NoLineBreaks

\* What follows the closing bracket of a node's line.
MarkerOf(line) ==
    LET close == CHOOSE p \in 1..Len(line) : line[p] = "\"]"
    IN  SubSeq(line, close + 1, Len(line))

\* The marker of the four known statuses.
KnownMarker(status) ==
    CASE status = "completed" -> <<":::success">>
      [] status = "failed" -> <<":::danger">>
      [] status = "running" -> <<":::warning">>
      [] status = "pending" -> <<":::info">>

KnownStatuses ==
    {"completed", "failed", "running", "pending"}

\* C21 as stated: each node's line ends with the success, danger, warning or
\* info marker for the status completed, failed, running or pending, and
\* with no marker for every other status: unset, empty, or any other string.
C21_NoMarkerForOtherStatus ==
    Rendered =>
        \A i \in 1..Len(nodes) :
            MarkerOf(Lines(result.text)[i + 1]) =
                IF nodes[i].status \in KnownStatuses
                THEN KnownMarker(nodes[i].status)
                ELSE <<>>

\* C21 amended: each node's line ends with the success, danger, warning or
\* info marker for the status completed, failed, running or pending, with
\* no marker for an unset or empty status, and with the info marker for
\* every other string.
C21_InfoMarkerForOtherStatus ==
    Rendered =>
        \A i \in 1..Len(nodes) :
            MarkerOf(Lines(result.text)[i + 1]) =
                IF nodes[i].status \in KnownStatuses
                THEN KnownMarker(nodes[i].status)
                ELSE IF nodes[i].status \in {None, ""} THEN <<>>
                ELSE <<":::info">>

\* A rendered graph with a node of a status that is none of the four and a
\* node without status.
C21_Witness ==
    /\ Rendered
    /\ \E i \in 1..Len(nodes) : nodes[i].status = "skipped"
    /\ \E i \in 1..Len(nodes) : nodes[i].status = None

\* The first pieces of a text.
StartsWith(text, prefix) ==
    /\ Len(text) >= Len(prefix)
    /\ SubSeq(text, 1, Len(prefix)) = prefix

\* C22: convert_to_mermaid raises no error for any graph, also one whose
\* edges name ids that are no nodes; its text has at least one line for the
\* directive, each node and each edge, and for names without line breaks
\* exactly these: the directive, then a line for each node in node order,
\* then a line for each edge in edge order, showing source --> target with
\* |label| between them only when the edge has a label.
C22_DirectiveNodesEdges ==
    result.op = "convert_to_mermaid" =>
        LET lines == Lines(result.text)
            n == Len(nodes)
        IN  /\ ~result.raised
            /\ Len(lines) >= 1 + n + Len(edges)
            /\ NoLineBreaks =>
                  /\ Len(lines) = 1 + n + Len(edges)
                  /\ lines[1] \in {<<"flowchart TD">>, <<"graph TD">>}
                  /\ \A i \in 1..n :
                        StartsWith(lines[1 + i],
                                   <<"    ", nodes[i].id, "[\"">>)
                  /\ \A k \in 1..Len(edges) :
                        lines[1 + n + k] =
                            IF edges[k].label \in {None, ""}
                            THEN <<"    ", edges[k].from_node, " -->", " ",
                                   edges[k].to_node>>
                            ELSE <<"    ", edges[k].from_node, " -->", "|",
                                   edges[k].label, "|", " ",
                                   edges[k].to_node>>

\* A rendered graph of two nodes and two edges, one with a label and one
\* with an empty label, and an edge to an id that is no node.
C22_Witness ==
    /\ Rendered
    /\ Len(nodes) = 2
    /\ Len(edges) = 2
    /\ \E k \in 1..2 : edges[k].label = "x"
    /\ \E k \in 1..2 : edges[k].to_node = "zz"

\* A rendered graph with an edge whose label is the empty string.
C22_WitnessEmptyLabel ==
    /\ Rendered
    /\ Len(nodes) = 2
    /\ \E k \in 1..Len(edges) : edges[k].label = ""

\* C23: the first line is "flowchart TD" exactly when the graph has at most
\* 10 nodes and at most 15 edges, and "graph TD" otherwise.
C23_DirectiveBySize ==
    Returned("convert_to_mermaid") =>
        Lines(result.text)[1] =
            IF Len(nodes) <= 10 /\ Len(edges) <= 15
            THEN <<"flowchart TD">>
            ELSE <<"graph TD">>

\* A rendered graph of 10 nodes and 16 edges: few nodes, too many edges.
C23_Witness ==
    /\ Returned("convert_to_mermaid")
    /\ Len(nodes) = 10
    /\ Len(edges) = 16

\* A rendered graph of 10 nodes and 15 edges: the largest compact one.
C23_WitnessLargestCompact ==
    /\ Returned("convert_to_mermaid")
    /\ Len(nodes) = 10
    /\ Len(edges) = 15
    /\ Lines(result.text)[1] = <<"flowchart TD">>

\* ------------------------------------------- claims on the shared handler

\* The message of the first check a graph fails, in the order of the checks:
\* empty node list, duplicate ids, first edge with an unknown endpoint (its
\* source before its target), cycle; none when it passes them all.
FirstFailedCheck(ns, es) ==
    IF ns = <<>> THEN <<Error("empty", "")>>
    ELSE IF ~DistinctIds(ns) THEN <<Error("duplicate", "")>>
    ELSE IF \E k \in 1..Len(es) :
                {es[k].from_node, es[k].to_node} \ IdSet(ns) # {}
    THEN LET k == CHOOSE k \in 1..Len(es) :
                      /\ {es[k].from_node, es[k].to_node} \ IdSet(ns) # {}
                      /\ \A j \in 1..(k - 1) :
                             {es[j].from_node, es[j].to_node} \subseteq IdSet(ns)
         IN  IF es[k].from_node \notin IdSet(ns)
             THEN <<Error("unknown_from", es[k].from_node)>>
             ELSE <<Error("unknown_to", es[k].to_node)>>
    ELSE IF HasCycle(es) THEN <<Error("cycle", "")>>
    ELSE <<>>

C29_WitnessTwoFailures ==
    /\ Returned("validate_dag_config")
    /\ result.errors_at_entry # <<>>
    /\ validation_errors # <<>>
    /\ validation_errors # result.errors_at_entry

\* C28: validate_dag_config, get_topological_order, get_dag_statistics,
\* generate_execution_order and convert_to_mermaid leave the graph unchanged:
\* through any sequence of these calls the node list, every field of every
\* node (its position too) and the edge list stay as they were.
C28_GraphUnchanged ==
    [][nodes' = nodes /\ edges' = edges]_vars

\* convert_to_mermaid has returned, after a validate_dag_config call that
\* failed, on a graph with edges whose nodes have positions.
C28_Witness ==
    /\ Returned("convert_to_mermaid")
    /\ validation_errors # <<>>
    /\ edges # <<>>
    /\ Len(nodes) = 2
    /\ \A i \in 1..Len(nodes) : nodes[i].position # <<>>

\* ------------------------------------------------- claims on the Kahn loops

\* The ids of the nodes a loop has emitted, in the order of emission.
EmittedIds ==
    IF kahn.fn = "get_topological_order"
    THEN [k \in 1..Len(kahn.topo_order) |-> nodes[kahn.topo_order[k]].id]
    ELSE kahn.processed

\* The node lies on a directed cycle or a path leads to it from a node that
\* does.
OnOrBelowCycle(id) ==
    \E u \in Ids :
        /\ PathWithin(edges, u, u, Cardinality(Ids))
        /\ u = id \/ PathWithin(edges, u, id, Cardinality(Ids))

\* No node is emitted twice, and each emitted node after every predecessor.
EmittedInOrder ==
    /\ \A k, l \in 1..Len(EmittedIds) : EmittedIds[k] = EmittedIds[l] => k = l
    /\ \A l \in 1..Len(EmittedIds) :
           \A e \in 1..Len(edges) :
               edges[e].to_node = EmittedIds[l] =>
                   \E k \in 1..(l - 1) : EmittedIds[k] = edges[e].from_node

\* The loop has ended and the nodes it has not emitted are those on or below
\* a cycle.
EndedWithCyclesLeftOut ==
    /\ kahn.pc = "done"
    /\ \A id \in IdSet(nodes) :
           OnOrBelowCycle(id) <=>
               \A k \in 1..Len(EmittedIds) : EmittedIds[k] # id

\* C26: on every structurally valid graph, cyclic or not, the Kahn loops of
\* _check_acyclic and get_topological_order end; no node is emitted twice,
\* every emitted node has all its predecessors emitted before it, and the
\* nodes left out at the end are exactly those on a directed cycle or
\* reachable from one.
C26_KahnLoopsEnd ==
    /\ [](StructurallyValid(nodes, edges) => EmittedInOrder)
    /\ [](StructurallyValid(nodes, edges) /\ kahn.pc = "done"
             => EndedWithCyclesLeftOut)
    /\ (StructurallyValid(nodes, edges) /\ kahn.pc = "loop")
           ~> (kahn.pc = "done")

\* A loop has ended on a graph with a cycle and a node below it, one node
\* emitted and two left out.
C26_Witness ==
    /\ StructurallyValid(nodes, edges)
    /\ kahn.pc = "done"
    /\ Len(EmittedIds) = 1
    /\ \E id \in IdSet(nodes) :
           /\ PathWithin(edges, id, id, Cardinality(Ids))
           /\ \E v \in IdSet(nodes) :
                  /\ ~PathWithin(edges, v, v, Cardinality(Ids))
                  /\ PathWithin(edges, id, v, Cardinality(Ids))

\* The loops, run step by step, return what the methods return.
KahnStepsAgree ==
    /\ Returned("check_acyclic") => result.ok = check_acyclic(nodes, edges)
    /\ Returned("get_topological_order") =>
           result.order = get_topological_order(nodes, edges)

\* ------------------------------------------------ claims on the FileManager

\* C24: after save_file(name, content) with temp=False has succeeded,
\* read_file(name) returns exactly content, whatever files the temp
\* directory has and whatever was stored under the name before.
C24_ReadReturnsSavedContent ==
    (Returned("save_file") /\ ~result.temp) =>
        LET r == read_file(base_dir, temp_dir, result.filename)
        IN  ~r.raised /\ r.content = result.content

\* C30: after delete_file(name) has returned True, file_exists(name) is
\* False and read_file(name) raises FileNotFoundError, wherever the name
\* was before the call: in the main directory, the temp directory, or both.
C30_DeletedFileIsGone ==
    (Returned("delete_file") /\ result.ok) =>
        /\ ~file_exists(base_dir, temp_dir, result.filename)
        /\ read_file(base_dir, temp_dir, result.filename).raised

\* The report is in the main directory with a cleanup task that falls due
\* while the clock runs.
SavedAndScheduled(filename) ==
    /\ filename \in DOMAIN base_dir
    /\ \E k \in 1..Len(cleanup_tasks) :
           /\ cleanup_tasks[k].file_path = Path("base_dir", filename)
           /\ cleanup_tasks[k].cleanup_time <= MaxClock

\* C27: every report file saved by /generate is deleted at some time after
\* its 24 hours have passed, the service running: its cleanup task is
\* processed and removes it.
C27_ExpiredReportsDeleted ==
    \A filename \in ReportNames :
        SavedAndScheduled(filename) ~> (filename \notin DOMAIN base_dir)

\* ------------------------------------------------- claims on the endpoints

\* The DAG elements of the configuration that validate_dag_config rejects.
RejectedDags ==
    {i \in 1..Len(config.elements) :
        /\ config.elements[i].type = "dag"
        /\ ~validate_dag_config(config.elements[i].nodes,
                                config.elements[i].edges).ok}

\* C25: POST /validate answers valid=false with a non-empty error list
\* whenever the configuration has a DAG element for which
\* validate_dag_config returns False, and valid=true only when every DAG
\* element passes.
C25_InvalidDagRejected ==
    result.op = "validate_config" =>
        /\ RejectedDags # {} => ~result.valid /\ result.errors # <<>>
        /\ result.valid => RejectedDags = {}

====
